---- MODULE Spec2Model ----
(***************************************************************************)
(* Model of the schema reference extractor (RefExtractor.extract/walk),    *)
(* the leaf-transform discovery (LeafTransformerBase, loadTransforms) and  *)
(* the validator wrapper (AjvValidator.compile / middleware) of            *)
(* moleculer-essentials.                                                   *)
(*                                                                         *)
(* JavaScript objects are cells of a heap: a schema node is a cell of      *)
(* `nodes`, a `properties` object is a cell of `pmaps`.  An address is an  *)
(* index into the sequence; 0 is "no object".  Object identity is address  *)
(* equality, structural equality (lodash isEqual) is equality of Deep.     *)
(***************************************************************************)
EXTENDS Integers, Sequences, FiniteSets, TLC

VARIABLES
  nodes,        \* heap of schema-node objects (input schemas, then every object walk allocates)
  pmaps,        \* heap of `properties` objects: ordered lists of (key, node address)
  refs,         \* RefExtractor.refs of every extractor: identifier -> NoEntry | NullEntry | address
  hooks,        \* per extractor, the onNewRef invocations in order: (originalRef, schema)
  transformMap, \* per transformer, LeafTransformerBase.transformMap: schema address -> programs
  compiledFns,  \* per validator, AjvValidator.compiledFns: schema address -> compiled function
  wrappers,     \* handlers installed by middleware().localAction, in installation order
  lastCall,     \* the call that just returned: its arguments, its result or the error it threw
  calls,        \* number of calls made so far
  store,        \* the broker's global store 'redis': key -> { client, services } or no entry
  clients,      \* every client created so far: how often its onClose was invoked
  svc,          \* per service, this[kKey] and this.redis
  pending,      \* removeServiceFromStore calls awaiting their onClose
  storeCall,    \* the store call that just ran: its arguments and what it returned
  queue,        \* per service, its QueueClient and its registerRepeatableJobs: key, connection, progress
  fieldsCall,   \* the filterFields call that just returned: its arguments and its result
  state,        \* HealthCheckMiddleware: `state`
  server,       \* HealthCheckMiddleware: the http server ("none" before created)
  timeout,      \* HealthCheckMiddleware: the start-debounce timer is pending
  broker,       \* the lifecycle hook of the broker that ran last
  probe,        \* the health-check request answered last: url, status, content.state
  selectCall    \* the isServiceSelected call: its arguments, the caller's selector afterwards, its result

\* The variables of the validator and its extractors.
validatorVars == <<nodes, pmaps, refs, hooks, transformMap, compiledFns, wrappers, lastCall, calls>>

\* The variables of the global store and the services using it.
storeVars == <<store, clients, svc, pending, storeCall, queue>>

\* The variables of the health-check middleware and its broker.
healthVars == <<state, server, timeout, broker, probe>>

vars == <<validatorVars, storeVars, fieldsCall, healthVars, selectCall>>

\* What a call on a validator or an extractor leaves alone.
outsideValidator == <<storeVars, fieldsCall, healthVars, selectCall>>

\* What a call on the global store leaves alone.
outsideStore == <<validatorVars, fieldsCall, healthVars, selectCall>>

\* What filterFields leaves alone.
outsideFields == <<validatorVars, storeVars, healthVars, selectCall>>

\* What the health-check middleware leaves alone.
outsideHealth == <<validatorVars, storeVars, fieldsCall, selectCall>>

\* What isServiceSelected leaves alone.
outsideLoader == <<validatorVars, storeVars, fieldsCall, healthVars>>

----------------------------------------------------------------------------
(* Bounds *)

\* Number of public calls explored in one behaviour.
MaxCalls == 2

\* Depth of the JavaScript call stack available to the recursive walk; a
\* deeper recursion ends in "RangeError: Maximum call stack size exceeded".
MaxStack == 7

\* Depth to which two object graphs are compared / unfolded.
DeepFuel == 8

----------------------------------------------------------------------------
(* Schema nodes *)

\* src/unnamed/part_016:6
SCHEMA_REF_NAME == "$id"

\* A schema object with no keyword.  "" / 0 / <<>> / "absent" stand for an
\* absent keyword; `extra` carries the constraint keywords walk never reads
\* (minLength, maximum, required, ...).
Blank ==
  [id |-> "", ref |-> "", nullable |-> "absent", type |-> "", format |-> "",
   coerce |-> FALSE, extra |-> "", props |-> 0, ap |-> "absent", apS |-> 0,
   items |-> 0, oneOf |-> <<>>, anyOf |-> <<>>, allOf |-> <<>>]

NoEntry == 0        \* refs.has(id) is false
NullEntry == 0 - 1  \* refs.get(id) === null

\* The types walk returns as they are (ref-extractor.ts:102).
PrimitiveTypes == {"integer", "number", "string", "boolean"}

\* The identifiers ($id values) used by the schemas below.
Ids == {"S", "K", "A", "B", "CA", "CB"}

\* The AjvValidator instances of the process, each constructed with the
\* same two modes.
Validators == {"V1", "V2"}
Modes == {"default", "strict"}

\* The extractor `new AjvExtractor(validator)` the constructor of v creates for mode m.
ExtractorOf(v, m) == v \o "/" \o m

\* The extractors: one owned by each mode of each validator, one
\* AjvExtractor used directly, as `new AjvExtractor(ajv)`, and one
\* OpenAPIExtractor, as `new OpenAPIExtractor(doc)`.
Extractors == {ExtractorOf(v, m) : v \in Validators, m \in Modes} \cup {"standalone", "openapi"}

----------------------------------------------------------------------------
(* The schemas the application defines at startup (the input heap). *)

Str(extra) == [Blank EXCEPT !.type = "string", !.extra = extra]
Obj(p) == [Blank EXCEPT !.type = "object", !.props = p, !.ap = "false", !.extra = "required:[]"]
P(k, v) == [k |-> k, v |-> v]

InitNodes ==
  << [Str("minLength:5") EXCEPT !.id = "S"],                          \*  1 MyString
     [Str("minLength:5") EXCEPT !.id = "S", !.nullable = "true"],     \*  2 MyString, nullable
     [Blank EXCEPT !.type = "number", !.id = "K"],                    \*  3 K as a number
     [Blank EXCEPT !.ref = "#"],                                      \*  4 {$ref: '#'}
     [Blank EXCEPT !.type = "null"],                                  \*  5 {type: 'null'}
     [Blank EXCEPT !.type = "number", !.extra = "maximum:5"],         \*  6
     Obj(1),                                                          \*  7 {a: MyString}
     [Obj(2) EXCEPT !.ap = "schema", !.apS = 1],                      \*  8 {a: MyString?, l: [MyString]}, additionalProperties: MyString
     [Blank EXCEPT !.type = "array", !.items = 1],                    \*  9
     Obj(3),                                                          \* 10 {a: K as a number}
     [Obj(4) EXCEPT !.id = "B"],                                      \* 11 B = {b: '#' | null}
     [Blank EXCEPT !.oneOf = <<4, 5>>],                               \* 12 oneOf ['#', null]
     Obj(5),                                                          \* 13 {child: B, other: $ref to S's address}
     Obj(6),                                                          \* 14 {a: '#'}
     [Obj(7) EXCEPT !.id = "A", !.nullable = "true"],                 \* 15 A = {x: B, y: '#'}, nullable
     [Str("") EXCEPT !.oneOf = <<1>>],                                \* 16 primitive type with oneOf
     [Blank EXCEPT !.props = 8],                                      \* 17 properties, no type
     Obj(9),                                                          \* 18 {p: 16, q: 17}
     [Blank EXCEPT !.anyOf = <<1, 6>>, !.allOf = <<2>>],              \* 19 anyOf / allOf
     [Obj(10) EXCEPT !.id = "CA"],                                    \* 20 CA = {b: CB}
     [Obj(11) EXCEPT !.id = "CB"],                                    \* 21 CB = {a: CA}
     Obj(12),                                                         \* 22 {a: K as a string, b: K as a number}
     [Blank EXCEPT !.ref = "https://schemas.wavy.fr/S"],              \* 23 explicit reference
     [Str("") EXCEPT !.format = "date-time"],                         \* 24 DATE_TYPE
     [Str("pattern") EXCEPT !.format = "object-id"],                  \* 25 OBJECTID_TYPE
     [Blank EXCEPT !.type = "array", !.coerce = TRUE, !.items = 24],  \* 26 coercible array of dates
     Str(""),                                                         \* 27 {type: 'string'}
     [Blank EXCEPT !.type = "array", !.items = 24],                   \* 28 array of dates
     [Blank EXCEPT !.oneOf = <<27, 28>>],                             \* 29 string | array of dates
     Obj(13),                                                         \* 30 {at: date, id: ObjectId, tags: 26, u: 29}
     [Str("") EXCEPT !.id = "K"],                                     \* 31 K as a string
     [Blank EXCEPT !.type = "array", !.items = 27],                   \* 32 array of strings
     [Blank EXCEPT !.type = "array", !.coerce = TRUE, !.items = 32],  \* 33 coercible array of arrays of strings
     Obj(14),                                                         \* 34 {values: 33}
     [Blank EXCEPT !.type = "array", !.coerce = TRUE, !.items = 27,
                   !.nullable = "true"],                              \* 35 coercible array of strings, nullable
     Obj(15),                                                         \* 36 {ids: 35, date: DATE_TYPE}
     [Obj(16) EXCEPT !.ap = "absent", !.extra = "", !.nullable = "true"], \* 37 {staffID: string, date: DATE_TYPE}, nullable
     Obj(17),                                                         \* 38 {value: number, appointment: 37}
     [Obj(18) EXCEPT !.oneOf = <<37>>],                               \* 39 {when: 40, list: 41} with oneOf
     [Str("") EXCEPT !.format = "date-time", !.anyOf = <<27>>],       \* 40 DATE_TYPE with anyOf
     [Blank EXCEPT !.type = "array", !.items = 24, !.allOf = <<28>>], \* 41 array of dates with allOf
     Obj(19)                                                          \* 42 {dates: 26}
  >>

InitPmaps ==
  << <<P("a", 1)>>,                    \*  1
     <<P("a", 2), P("l", 9)>>,         \*  2
     <<P("a", 3)>>,                    \*  3
     <<P("b", 12)>>,                   \*  4
     <<P("child", 11), P("other", 23)>>, \*  5
     <<P("a", 4)>>,                    \*  6
     <<P("x", 11), P("y", 4)>>,        \*  7
     <<P("a", 2)>>,                    \*  8
     <<P("p", 16), P("q", 17)>>,       \*  9
     <<P("b", 21)>>,                   \* 10
     <<P("a", 20)>>,                   \* 11
     <<P("a", 31), P("b", 3)>>,        \* 12
     <<P("at", 24), P("id", 25), P("tags", 26), P("u", 29)>>, \* 13
     <<P("values", 33)>>,              \* 14
     <<P("ids", 35), P("date", 24)>>,  \* 15
     <<P("staffID", 27), P("date", 24)>>, \* 16
     <<P("value", 6), P("appointment", 37)>>, \* 17
     <<P("when", 40), P("list", 41)>>, \* 18
     <<P("dates", 26)>>                \* 19
  >>

\* The schemas handed to extract.
ExtractRoots == {7, 8, 10, 13, 14, 15, 18, 19, 20, 22}

\* The schemas actions declare as params, and those handed to compile.
CompileRoots == {7, 14, 20, 22, 24, 29, 30, 34, 36, 38, 39, 42}

\* The initialRef arguments: omitted, or the name the caller gives the root.
InitialRefs == {"", "my-test/MySchema"}

----------------------------------------------------------------------------
(* Structural equality *)

\* The object graph below address a, unfolded into a value: what lodash
\* isEqual compares (own keys and their values, key order ignored).
RECURSIVE Deep(_, _, _, _)
Deep(ns, ps, a, fuel) ==
  LET n == ns[a]
      sub(b) == Deep(ns, ps, b, fuel - 1)
      pm == ps[n.props]
      at(k) == pm[CHOOSE i \in 1..Len(pm) : pm[i].k = k].v
  IN IF fuel = 0 THEN [Blank EXCEPT !.extra = "...", !.props = <<>>, !.apS = <<>>, !.items = <<>>]
     ELSE [n EXCEPT
             !.props = IF n.props = 0 THEN <<>>
                       ELSE << [k \in {pm[i].k : i \in 1..Len(pm)} |-> sub(at(k))] >>,
             !.apS   = IF n.apS = 0 THEN <<>> ELSE <<sub(n.apS)>>,
             !.items = IF n.items = 0 THEN <<>> ELSE <<sub(n.items)>>,
             !.oneOf = [i \in 1..Len(n.oneOf) |-> sub(n.oneOf[i])],
             !.anyOf = [i \in 1..Len(n.anyOf) |-> sub(n.anyOf[i])],
             !.allOf = [i \in 1..Len(n.allOf) |-> sub(n.allOf[i])]]

\* lodash isEqual(a, b) on two objects of the heap held by st.
isEqual(st, a, b) == Deep(st.nodes, st.pmaps, a, DeepFuel) = Deep(st.nodes, st.pmaps, b, DeepFuel)

----------------------------------------------------------------------------
(* RefExtractor *)

\* AjvExtractor.refReplacer
refReplacer(ref) == "https://schemas.wavy.fr/" \o ref

\* OpenAPIExtractor.refReplacer
openapiRefReplacer(ref) == "#/components/schemas/" \o ref

\* An OpenAPIExtractor that returns the identifier as the address.
refReplacerBareOpenAPI(e, ref) == IF e = "openapi" THEN ref ELSE refReplacer(ref)

\* this.refReplacer(ref) on extractor e: the override of e's class.
refReplacerOf(e, ref) == IF e = "openapi" THEN openapiRefReplacer(ref) ELSE refReplacer(ref)

\* omit that removes SCHEMA_REF_NAME only.
omitIdOnly(n) == [n EXCEPT !.id = ""]

\* lodash omit(curr, [SCHEMA_REF_NAME, 'nullable']): a new object without the two keys.
omit(n) == [n EXCEPT !.id = "", !.nullable = "absent"]

\* The outcome of a step of walk: the heap and extractor state after it, and
\* the object it returns.  st.err # "" means an exception is propagating.
Ret(st, a) == [st |-> st, res |-> a]
Throw(st, e, id) == Ret([st EXCEPT !.err = e, !.errId = id], 0)
New(st, n) == Ret([st EXCEPT !.nodes = Append(@, n)], Len(st.nodes) + 1)

\* No copy: the forEach assigns into the properties object of curr.
SameProperties(st, p) == Ret(st, p)

\* `newSchema.properties = { ...newSchema.properties }`: the copy of the
\* properties object that the forEach then assigns into.
CopyProperties(st, p) == Ret([st EXCEPT !.pmaps = Append(@, st.pmaps[p])], Len(st.pmaps) + 1)

\* The '#' node rewritten without the `!currentRef` test.
SelfRefUnchecked(st, currentRef) == New(st, [Blank EXCEPT !.ref = currentRef])

\* `if (!currentRef) throw ...; return { $ref: currentRef }` for a '#' node.
SelfRef(st, currentRef) ==
  IF currentRef = ""
    THEN Throw(st, "SelfRef", "")
    ELSE New(st, [Blank EXCEPT !.ref = currentRef])

\* The reference site without the `curr.nullable` alternative.
RefSiteBare(st, n, ref, root, skipRoot) ==
  IF skipRoot /\ root THEN Ret(st, st.refs[n.id])
  ELSE New(st, [Blank EXCEPT !.ref = ref])

\* What replaces a named node once its content is registered (lines 87-99).
\* st.refs[n.id] is the registered object.
RefSite(st, n, ref, root, skipRoot) ==
  IF skipRoot /\ root THEN Ret(st, st.refs[n.id])
  ELSE IF n.nullable = "true"
    THEN LET r1 == New(st, [Blank EXCEPT !.ref = ref])
             r2 == New(r1.st, [Blank EXCEPT !.type = "null"])
         IN New(r2.st, [Blank EXCEPT !.oneOf = <<r1.res, r2.res>>])
    ELSE New(st, [Blank EXCEPT !.ref = ref])

\* Registration that keeps the first content and never compares.
RegisterKeepFirst(st, id, newSchema) ==
  LET registeredSchema == st.refs[id]
      seen == [st EXCEPT !.attempts =
                 Append(@, [id |-> id, schema |-> newSchema, prior |-> registeredSchema])]
  IN IF registeredSchema = NullEntry
       THEN [seen EXCEPT !.refs[id] = newSchema,
                         !.hooks = Append(@, [id |-> id, schema |-> newSchema])]
     ELSE seen

\* Registration that replaces the registered content by the conflicting one
\* before it raises the conflict.
RegisterOverwrite(st, id, newSchema) ==
  LET registeredSchema == st.refs[id]
      seen == [st EXCEPT !.attempts =
                 Append(@, [id |-> id, schema |-> newSchema, prior |-> registeredSchema])]
  IN IF registeredSchema = NullEntry
       THEN [seen EXCEPT !.refs[id] = newSchema,
                         !.hooks = Append(@, [id |-> id, schema |-> newSchema])]
     ELSE IF ~isEqual(st, newSchema, registeredSchema)
       THEN [seen EXCEPT !.err = "Conflict", !.errId = id, !.refs[id] = newSchema]
     ELSE seen

\* Registration whose onNewRef invocation is recorded ahead of the earlier ones.
RegisterHookFirst(st, id, newSchema) ==
  LET registeredSchema == st.refs[id]
      seen == [st EXCEPT !.attempts =
                 Append(@, [id |-> id, schema |-> newSchema, prior |-> registeredSchema])]
  IN IF registeredSchema = NullEntry
       THEN [seen EXCEPT !.refs[id] = newSchema,
                         !.hooks = <<[id |-> id, schema |-> newSchema]>> \o @]
     ELSE IF ~isEqual(st, newSchema, registeredSchema)
       THEN [seen EXCEPT !.err = "Conflict", !.errId = id]
     ELSE seen

\* Lines 75-85: newSchema against what refs holds for the identifier.
Register(st, id, newSchema) ==
  LET registeredSchema == st.refs[id]
      seen == [st EXCEPT !.attempts =
                 Append(@, [id |-> id, schema |-> newSchema, prior |-> registeredSchema])]
  IN IF registeredSchema = NullEntry
       THEN [seen EXCEPT !.refs[id] = newSchema,
                         !.hooks = Append(@, [id |-> id, schema |-> newSchema])]
     ELSE IF ~isEqual(st, newSchema, registeredSchema)
       THEN [seen EXCEPT !.err = "Conflict", !.errId = id]
     ELSE seen

RECURSIVE walk(_, _, _, _, _, _)
RECURSIVE walkProps(_, _, _, _, _, _, _)
RECURSIVE propsAssign(_, _, _, _, _, _, _)
RECURSIVE walkList(_, _, _, _, _, _, _)
RECURSIVE listPush(_, _, _, _, _, _, _)
RECURSIVE walkNamed(_, _, _, _, _)
RECURSIVE walkNamedBareId(_, _, _, _, _)
RECURSIVE walkContainer(_, _, _, _, _)
RECURSIVE walkChildren(_, _, _, _, _, _)
RECURSIVE walkAdditional(_, _, _, _, _, _)
RECURSIVE walkUnion(_, _, _, _, _, _)

\* Object.entries(newSchema.properties).forEach(([key, val]) =>
\*   newSchema.properties[key] = walk(val, currentRef))
walkProps(st, target, entries, i, currentRef, skipRoot, fuel) ==
  IF i > Len(entries) THEN st
  ELSE propsAssign(walk(st, entries[i].v, currentRef, FALSE, skipRoot, fuel),
                   target, entries, i, currentRef, skipRoot, fuel)

\* `newSchema.properties[key] = <r>`, then the next entry.
propsAssign(r, target, entries, i, currentRef, skipRoot, fuel) ==
  IF r.st.err # "" THEN r.st
  ELSE walkProps([r.st EXCEPT !.pmaps[target][i].v = r.res],
                 target, entries, i + 1, currentRef, skipRoot, fuel)

\* list.map(s => walk(s, currentRef))
walkList(st, list, i, acc, currentRef, skipRoot, fuel) ==
  IF i > Len(list) THEN Ret(st, acc)
  ELSE listPush(walk(st, list[i], currentRef, FALSE, skipRoot, fuel),
                list, i, acc, currentRef, skipRoot, fuel)

listPush(r, list, i, acc, currentRef, skipRoot, fuel) ==
  IF r.st.err # "" THEN r
  ELSE walkList(r.st, list, i + 1, Append(acc, r.res), currentRef, skipRoot, fuel)

\* Lines 75-99, once walk has returned r for the content of named node n.
namedDone(r, n, ref, root, skipRoot) ==
  IF r.st.err # "" THEN r
  ELSE LET st2 == Register(r.st, n.id, r.res)
       IN IF st2.err # "" THEN Ret(st2, 0) ELSE RefSite(st2, n, ref, root, skipRoot)

\* walkNamed with the content walked under the bare identifier instead of
\* the address refReplacer gives it.
walkNamedBareId(st, curr, root, skipRoot, fuel) ==
  LET n == st.nodes[curr]
      schemaRefName == n.id
      ref == refReplacerOf(st.ext, schemaRefName)
      st1 == IF st.refs[schemaRefName] = NoEntry
               THEN [st EXCEPT !.refs[schemaRefName] = NullEntry] ELSE st
      o == New(st1, omit(n))
  IN namedDone(walk(o.st, o.res, schemaRefName, FALSE, skipRoot, fuel - 1), n, ref, root, skipRoot)

\* Lines 68-100: curr carries SCHEMA_REF_NAME.
walkNamed(st, curr, root, skipRoot, fuel) ==
  LET n == st.nodes[curr]
      schemaRefName == n.id
      ref == refReplacerOf(st.ext, schemaRefName)
      st1 == IF st.refs[schemaRefName] = NoEntry
               THEN [st EXCEPT !.refs[schemaRefName] = NullEntry] ELSE st
      o == New(st1, omit(n))
  IN namedDone(walk(o.st, o.res, ref, FALSE, skipRoot, fuel - 1), n, ref, root, skipRoot)

\* `newSchema[f] = <r>` unless walk threw.
assign(r, a, f) == IF r.st.err # "" THEN r.st ELSE [r.st EXCEPT !.nodes[a][f] = r.res]

\* Lines 108-116: items of an array, properties of an object.
walkChildren(st, a, n, currentRef, skipRoot, fuel) ==
  IF n.type = "array" /\ n.items # 0
    THEN assign(walk(st, n.items, currentRef, FALSE, skipRoot, fuel), a, "items")
  ELSE IF n.type = "object" /\ n.props # 0
    THEN LET cp == CopyProperties(st, n.props)
             s0 == [cp.st EXCEPT !.nodes[a].props = cp.res]
         IN walkProps(s0, cp.res, s0.pmaps[cp.res], 1, currentRef, skipRoot, fuel)
  ELSE st

\* Lines 117-125: additionalProperties that is a schema.
walkAdditional(st, a, n, currentRef, skipRoot, fuel) ==
  IF st.err = "" /\ n.type = "object" /\ n.ap = "schema"
    THEN assign(walk(st, n.apS, currentRef, FALSE, skipRoot, fuel), a, "apS")
    ELSE st

\* Lines 128-136: `if (Array.isArray(newSchema[f])) newSchema[f] = newSchema[f].map(...)`.
walkUnion(st, a, f, currentRef, skipRoot, fuel) ==
  IF st.err # "" \/ st.nodes[a][f] = <<>> THEN st
  ELSE assign(walkList(st, st.nodes[a][f], 1, <<>>, currentRef, skipRoot, fuel), a, f)

\* `return newSchema` unless something threw.
containerDone(st, a) == Ret(st, IF st.err # "" THEN 0 ELSE a)

\* Lines 106-137: the shallow copy `{ ...curr }` and its rewritten children.
walkContainer(st, curr, currentRef, skipRoot, fuel) ==
  LET n == st.nodes[curr]
      c == New(st, n)
      a == Len(st.nodes) + 1
  IN containerDone(
       walkUnion(
         walkUnion(
           walkUnion(
             walkAdditional(
               walkChildren(c.st, a, n, currentRef, skipRoot, fuel - 1),
               a, n, currentRef, skipRoot, fuel - 1),
             a, "oneOf", currentRef, skipRoot, fuel - 1),
           a, "allOf", currentRef, skipRoot, fuel - 1),
         a, "anyOf", currentRef, skipRoot, fuel - 1),
       a)

\* RefExtractor.extract's inner walk(curr, currentRef, root).
walk(st, curr, currentRef, root, skipRoot, fuel) ==
  LET n == st.nodes[curr]
  IN IF fuel = 0 THEN Throw(st, "RangeError", "")
     ELSE IF n.ref # ""
       THEN IF n.ref = "#" THEN SelfRef(st, currentRef) ELSE Ret(st, curr)
     ELSE IF n.id # "" THEN walkNamed(st, curr, root, skipRoot, fuel)
     ELSE IF n.type \in PrimitiveTypes THEN Ret(st, curr)
     ELSE walkContainer(st, curr, currentRef, skipRoot, fuel)

\* RefExtractor.extract(schemaToExtract, initialRef, skipRoot) on extractor e.
extract(e, schemaToExtract, initialRef, skipRoot) ==
  walk([nodes |-> nodes, pmaps |-> pmaps, refs |-> refs[e], hooks |-> hooks[e],
        err |-> "", errId |-> "", attempts |-> <<>>, ext |-> e],
       schemaToExtract, initialRef, TRUE, skipRoot, MaxStack)

----------------------------------------------------------------------------
(* Leaf transform discovery *)

\* src/validator/transformers.ts: the module-level `transformers` array, in order.
transformers == <<"date", "objectId", "coerceArray">>

\* DateTransformer / ObjectIdTransformer / CoerceArrayTransformer .isTransformableLeaf
isTransformableLeaf(t, n) ==
  CASE t = "date"        -> n.type = "string" /\ n.format \in {"date-time"}
    [] t = "objectId"    -> n.type = "string" /\ n.format = "object-id"
    [] t = "coerceArray" -> n.type = "array" /\ n.coerce

\* TransformLevel values.
This == [type |-> "this", key |-> "", subTransforms |-> <<>>]
Loop == [type |-> "loop", key |-> "", subTransforms |-> <<>>]
Access(k) == [type |-> "access", key |-> k, subTransforms |-> <<>>]
Select(sub) == [type |-> "select", key |-> "", subTransforms |-> sub]

\* LeafTransformerBase.findTransformsInternal(schema, currentField); err is
\* "RangeError" when the recursion exhausts the call stack.
RECURSIVE findTransformsInternal(_, _, _, _)
RECURSIVE findInEach(_, _, _, _, _)
RECURSIVE findRest(_, _, _, _, _, _)

Found(res) == [err |-> "", res |-> res]

\* flatMap's concatenation of the programs of one schema and of the rest.
concat(f, g) == IF g.err # "" THEN g ELSE Found(f.res \o g.res)

\* flatMap over the listed schemas; prefix[i] is the path the i-th starts from.
findInEach(t, list, prefix, i, fuel) ==
  IF i > Len(list) THEN Found(<<>>)
  ELSE findRest(findTransformsInternal(t, list[i], prefix[i], fuel), t, list, prefix, i, fuel)

findRest(f, t, list, prefix, i, fuel) ==
  IF f.err # "" THEN f ELSE concat(f, findInEach(t, list, prefix, i + 1, fuel))

\* Lines 41-42: `currentField.push({ type: 'select', subTransforms }); return [currentField]`.
select(sub, currentField) ==
  IF sub.err # "" THEN sub ELSE Found(<<Append(currentField, Select(sub.res))>>)

\* findTransformsInternal with the union production tried before the object
\* and array productions.
RECURSIVE findUnionFirst(_, _, _, _)
findUnionFirst(t, schema, currentField, fuel) ==
  LET n == nodes[schema]
      pm == pmaps[n.props]
      arr == IF n.oneOf # <<>> THEN n.oneOf ELSE IF n.anyOf # <<>> THEN n.anyOf ELSE n.allOf
  IN IF fuel = 0 THEN [err |-> "RangeError", res |-> <<>>]
     ELSE IF isTransformableLeaf(t, n)
       THEN Found(<<Append(currentField, This)>>)
     ELSE IF n.oneOf # <<>> \/ n.anyOf # <<>> \/ n.allOf # <<>>
       THEN select(findInEach(t, arr, [i \in 1..Len(arr) |-> <<>>], 1, fuel - 1), currentField)
     ELSE IF n.type = "object" /\ n.props # 0
       THEN findInEach(t, [i \in 1..Len(pm) |-> pm[i].v],
                       [i \in 1..Len(pm) |-> Append(currentField, Access(pm[i].k))],
                       1, fuel - 1)
     ELSE IF n.type = "array" /\ n.items # 0
       THEN findUnionFirst(t, n.items, Append(currentField, Loop), fuel - 1)
     ELSE Found(<<>>)

findTransformsInternal(t, schema, currentField, fuel) ==
  LET n == nodes[schema]
      pm == pmaps[n.props]
      arr == IF n.oneOf # <<>> THEN n.oneOf ELSE IF n.anyOf # <<>> THEN n.anyOf ELSE n.allOf
  IN IF fuel = 0 THEN [err |-> "RangeError", res |-> <<>>]
     ELSE IF isTransformableLeaf(t, n)
       THEN Found(<<Append(currentField, This)>>)
     ELSE IF n.type = "object" /\ n.props # 0
       THEN findInEach(t, [i \in 1..Len(pm) |-> pm[i].v],
                       [i \in 1..Len(pm) |-> Append(currentField, Access(pm[i].k))],
                       1, fuel - 1)
     ELSE IF n.type = "array" /\ n.items # 0
       THEN findTransformsInternal(t, n.items, Append(currentField, Loop), fuel - 1)
     ELSE IF n.oneOf # <<>> \/ n.anyOf # <<>> \/ n.allOf # <<>>
       THEN select(findInEach(t, arr, [i \in 1..Len(arr) |-> <<>>], 1, fuel - 1), currentField)
     ELSE Found(<<>>)

\* LeafTransformerBase.findTransforms
findTransforms(t, schema) == findTransformsInternal(t, schema, <<>>, MaxStack)

\* loadTransforms(schema), from the i-th transformer on: the transform maps
\* after it, and the error it threw if any.
RECURSIVE loadTransformsFrom(_, _, _)
RECURSIVE loadOne(_, _, _, _)

loadTransformsFrom(tm, schema, i) ==
  IF i > Len(transformers) THEN [err |-> "", tm |-> tm]
  ELSE IF schema \in DOMAIN tm[transformers[i]] THEN loadTransformsFrom(tm, schema, i + 1)
  ELSE loadOne(findTransforms(transformers[i], schema), tm, schema, i)

\* Lines 133-137 for the transforms found by the i-th transformer.
loadOne(transforms, tm, schema, i) ==
  IF transforms.err # "" THEN [err |-> transforms.err, tm |-> tm]
  ELSE IF \E j \in 1..Len(transforms.res) : Len(transforms.res[j]) = 0
    THEN [err |-> "UnsupportedTransforms", tm |-> tm]
  ELSE loadTransformsFrom([tm EXCEPT ![transformers[i]] = (schema :> transforms.res) @@ @],
                          schema, i + 1)

loadTransforms(schema) == loadTransformsFrom(transformMap, schema, 1)

----------------------------------------------------------------------------
(* AjvValidator *)

\* The mode the validator was constructed with as its default.
defaultMode == "default"

\* The `mode` arguments a caller passes: omitted, a configured mode, or a
\* mode the validator was not constructed with.
ModeArgs == {"undefined", "default", "strict", "unknown"}

\* compile's default parameter: `mode: Mode = this.defaultMode`.
ModeOf(mode) == IF mode = "undefined" THEN defaultMode ELSE mode

\* The closure compile returns: the schema, and the validator and the
\* extracted schema it captured.
NoFn == [schema |-> 0, mode |-> "", validator |-> "", refSchema |-> 0]

\* A validator that never finds a schema in compiledFns.
neverCached(v, schema, mode) == FALSE

\* `if (this.compiledFns.has(schema)) return this.compiledFns.get(schema)`
cached(v, schema, mode) == schema \in DOMAIN compiledFns[v]

\* What compile leaves and returns when it changes nothing.
Unchanged ==
  [err |-> "", errId |-> "", fn |-> NoFn, nodes |-> nodes, pmaps |-> pmaps,
   refs |-> refs, hooks |-> hooks, tm |-> transformMap, cf |-> compiledFns,
   attempts |-> <<>>]

\* Lines 243-271: r is what extractor.extract(schema) did; the closure is
\* created and stored under the schema.
compileExtracted(r, l, v, schema, m) ==
  LET out == [Unchanged EXCEPT !.tm = l.tm, !.nodes = r.st.nodes, !.pmaps = r.st.pmaps,
                               !.refs[ExtractorOf(v, m)] = r.st.refs,
                               !.hooks[ExtractorOf(v, m)] = r.st.hooks,
                               !.attempts = r.st.attempts]
      fn == [schema |-> schema, mode |-> m, validator |-> v, refSchema |-> r.res]
  IN IF r.st.err # "" THEN [out EXCEPT !.err = r.st.err, !.errId = r.st.errId]
     ELSE [out EXCEPT !.fn = fn, !.cf[v] = (schema :> fn) @@ @]

\* Lines 232-244: l is what loadTransforms(schema) did.  The catch block
\* serialises the schema before rethrowing; the only schemas that exhaust
\* the stack are the cyclic ones, on which JSON.stringify throws a TypeError.
compileLoaded(l, v, schema, m) ==
  IF l.err # ""
    THEN [Unchanged EXCEPT !.err = IF l.err = "RangeError" THEN "TypeError" ELSE l.err,
                           !.tm = l.tm]
  ELSE compileExtracted(extract(ExtractorOf(v, m), schema, "", FALSE), l, v, schema, m)

\* AjvValidator.compile(schema, mode) on validator v: the error it throws
\* or the function it returns, and the state it leaves.
compile(v, schema, mode) ==
  IF cached(v, schema, mode) THEN [Unchanged EXCEPT !.fn = compiledFns[v][schema]]
  ELSE IF ModeOf(mode) \notin Modes THEN [Unchanged EXCEPT !.err = "ModeNotFound"]
  ELSE compileLoaded(loadTransforms(schema), v, schema, ModeOf(mode))

----------------------------------------------------------------------------
(* The values handed to a compiled function *)

\* A JavaScript value: t is its kind, s the payload of a string (for a Date
\* its instant as toISOString prints it, for an ObjectId its hex string),
\* items the elements of an array, fields the own properties of a plain
\* object.
Val(t, s) == [items |-> <<>>, t |-> t, s |-> s, fields |-> <<>>]
Undefined == Val("undefined", "")
Null == Val("null", "")
StrV(s) == Val("string", s)
DateV(iso) == Val("date", iso)
OidV(hex) == Val("objectId", hex)
ArrV(items) == [Val("array", "") EXCEPT !.items = items]
ObjV(fields) == [Val("object", "") EXCEPT !.fields = fields]

\* An exception e thrown while the position held orig: the position keeps
\* orig, the exception unwinds applyTransforms.
Thrown(e, orig) == [Val("throw", e) EXCEPT !.items = <<orig>>]

\* The strings parseISO accepts, with the instant each denotes.
IsoInstant ==
  [s \in {"2021-05-06T08:33:20.377Z", "2021-05-06T10:33:20.377+02:00"} |->
     "2021-05-06T08:33:20.377Z"]

\* /^[a-f\d]{24}$/i
Hex24 == {"5d9322f2312617000060c3cf"}

\* Date.prototype.toISOString: a RangeError for an invalid Date.
toISOString(val) == IF val.s = "Invalid Date" THEN Thrown("RangeError", val) ELSE StrV(val.s)

\* date-fns parseISO, and `isNaN(date.getTime())` as s being "Invalid Date".
parseISO(val) == DateV(IF val.s \in DOMAIN IsoInstant THEN IsoInstant[val.s] ELSE "Invalid Date")

\* beforeTransformer with a CoerceArrayTransformer that wraps whatever it is given.
beforeTransformerAlwaysWrap(t, val) ==
  CASE t = "date" -> IF val.t = "date" THEN toISOString(val) ELSE val
    [] t = "objectId" -> IF val.t = "objectId" THEN StrV(val.s) ELSE val
    [] t = "coerceArray" -> ArrV(<<val>>)

\* beforeTransformer of the three transformers.
beforeTransformer(t, val) ==
  CASE t = "date" -> IF val.t = "date" THEN toISOString(val) ELSE val
    [] t = "objectId" -> IF val.t = "objectId" THEN StrV(val.s) ELSE val
    [] t = "coerceArray" -> IF val.t = "array" \/ val = Null THEN val ELSE ArrV(<<val>>)

\* afterTransformer of the three transformers.
afterTransformer(t, val) ==
  CASE t = "date" -> IF val.t # "string" THEN val
                     ELSE IF parseISO(val).s = "Invalid Date" THEN val
                     ELSE parseISO(val)
    [] t = "objectId" -> IF val.t = "string" /\ val.s \in Hex24 THEN OidV(val.s) ELSE val
    [] t = "coerceArray" -> val

\* The `transformer` argument of applyTransform: phase is "before" or "after".
Transform(t, phase, val) ==
  IF phase = "before" THEN beforeTransformer(t, val) ELSE afterTransformer(t, val)

\* applyTransform(parent, dataKey, transformer, transformField, index), as
\* the value it leaves at parent[dataKey] given the value val found there.
\* parent is a plain object or an array on every path that reaches `this`,
\* and `access` does not go on to a key the object does not have: `this`
\* finds no own property, `access` no plain object and `loop` no array there.
RECURSIVE applyTransform(_, _, _, _, _)
RECURSIVE applySelect(_, _, _, _, _)
RECURSIVE applyTransformAnyKey(_, _, _, _, _)
RECURSIVE startsWithThis(_)

\* The step, run on (parent, dataKey), evaluates parent.hasOwnProperty(dataKey):
\* it is `this`, or a `select` one of whose sub-programs begins that way.
startsWithThis(transformLevel) ==
  \/ transformLevel.type = "this"
  \/ /\ transformLevel.type = "select"
     /\ \E i \in DOMAIN transformLevel.subTransforms :
          startsWithThis(transformLevel.subTransforms[i][1])

\* applyTransform whose `access` goes on to a key the object does not have
\* and assigns what it finds there.
applyTransformAnyKey(val, t, phase, transformField, index) ==
  LET transformLevel == transformField[index]
      key == transformLevel.key
  IN CASE transformLevel.type = "this" ->
            Transform(t, phase, val)
       [] transformLevel.type = "access" ->
            IF val.t # "object" THEN val
            ELSE [val EXCEPT !.fields =
                    [k \in DOMAIN val.fields \cup {key} |->
                       IF k # key THEN val.fields[k]
                       ELSE applyTransformAnyKey(
                              IF key \in DOMAIN val.fields THEN val.fields[key] ELSE Undefined,
                              t, phase, transformField, index + 1)]]
       [] transformLevel.type = "select" ->
            applySelect(val, t, phase, transformLevel.subTransforms, 1)
       [] transformLevel.type = "loop" ->
            IF val.t # "array" THEN val
            ELSE [val EXCEPT !.items =
                    [i \in DOMAIN @ |-> applyTransformAnyKey(@[i], t, phase, transformField, index + 1)]]

applyTransform(val, t, phase, transformField, index) ==
  LET transformLevel == transformField[index]
      key == transformLevel.key
  IN CASE transformLevel.type = "this" ->
            Transform(t, phase, val)
       [] transformLevel.type = "access" ->
            IF val.t # "object" THEN val
            ELSE IF /\ "hasOwnProperty" \in DOMAIN val.fields
                    /\ startsWithThis(transformField[index + 1])
              THEN Thrown("TypeError", val)
            ELSE IF key \notin DOMAIN val.fields THEN val
            ELSE [val EXCEPT !.fields[key] = applyTransform(@, t, phase, transformField, index + 1)]
       [] transformLevel.type = "select" ->
            applySelect(val, t, phase, transformLevel.subTransforms, 1)
       [] transformLevel.type = "loop" ->
            IF val.t # "array" THEN val
            ELSE [val EXCEPT !.items =
                    [i \in DOMAIN @ |-> applyTransform(@[i], t, phase, transformField, index + 1)]]

\* `for (const localTransformField of transformLevel.subTransforms)`
applySelect(val, t, phase, subTransforms, i) ==
  IF i > Len(subTransforms) THEN val
  ELSE applySelect(applyTransform(val, t, phase, subTransforms[i], 1),
                   t, phase, subTransforms, i + 1)

\* applyTransform({ data }, 'data', transformer, transformField, 0): w is
\* what the temporary object's `data` holds afterwards, c is the value the
\* caller still holds.  Objects and arrays are changed in place, so c
\* follows w until `this` assigns another value to the temporary object.
RECURSIVE applyAtRoot(_, _, _, _)
RECURSIVE applySelectAtRoot(_, _, _, _, _)

applyAtRoot(data, t, phase, transformField) ==
  LET transformLevel == transformField[1]
      below == applyTransform(data, t, phase, transformField, 1)
  IN CASE transformLevel.type = "this" -> [w |-> Transform(t, phase, data), c |-> data]
       [] transformLevel.type = "select" ->
            applySelectAtRoot([w |-> data, c |-> data], t, phase, transformLevel.subTransforms, 1)
       [] OTHER -> [w |-> below, c |-> below]

\* A `select` at the root that applies none of its sub-programs.
skipSelectAtRoot(acc, t, phase, subTransforms, i) == acc

applySelectAtRoot(acc, t, phase, subTransforms, i) ==
  IF i > Len(subTransforms) THEN acc
  ELSE applySelectAtRoot(
         IF acc.w = acc.c THEN applyAtRoot(acc.w, t, phase, subTransforms[i])
         ELSE [w |-> applyTransform(acc.w, t, phase, subTransforms[i], 1), c |-> acc.c],
         t, phase, subTransforms, i + 1)

\* Whether an exception was thrown somewhere in val.
RECURSIVE hasThrown(_)
hasThrown(val) ==
  \/ val.t = "throw"
  \/ \E i \in DOMAIN val.items : hasThrown(val.items[i])
  \/ \E k \in DOMAIN val.fields : hasThrown(val.fields[k])

\* The exception thrown in val, "" if none.
RECURSIVE thrownName(_)
thrownName(val) ==
  IF val.t = "throw" THEN val.s
  ELSE LET below == ({thrownName(val.items[i]) : i \in DOMAIN val.items}
                      \cup {thrownName(val.fields[k]) : k \in DOMAIN val.fields}) \ {""}
       IN IF below = {} THEN "" ELSE CHOOSE e \in below : TRUE

\* val as the caller finds it once the exception has unwound.
RECURSIVE settle(_)
settle(val) ==
  IF val.t = "throw" THEN val.items[1]
  ELSE [val EXCEPT !.items = [i \in DOMAIN @ |-> settle(@[i])],
                   !.fields = [k \in DOMAIN @ |-> settle(@[k])]]

\* applyTransforms(schema, data, transformer.transformMap, transformer...)
\* from the j-th program on: the caller's data afterwards, and the error a
\* transformer threw.
RECURSIVE applyTransforms(_, _, _, _, _, _)
applyTransforms(tm, schema, acc, t, phase, j) ==
  IF schema \notin DOMAIN tm[t] \/ j > Len(tm[t][schema]) \/ acc.err # "" THEN acc
  ELSE LET r == applyAtRoot(acc.data, t, phase, tm[t][schema][j])
       IN applyTransforms(tm, schema,
                          [acc EXCEPT
                             !.data = settle(r.c),
                             !.err = IF hasThrown(r.w) THEN thrownName(r.w) ELSE thrownName(r.c)],
                          t, phase, j + 1)

\* transformers.forEach(...) taken from the last transformer to the first.
RECURSIVE applyEachReversed(_, _, _, _, _)
applyEachReversed(tm, schema, acc, phase, i) ==
  IF i > Len(transformers) \/ acc.err # "" THEN acc
  ELSE applyEachReversed(
         tm, schema,
         applyTransforms(tm, schema,
                         [acc EXCEPT !.log = Append(@, phase \o ":" \o transformers[Len(transformers) + 1 - i])],
                         transformers[Len(transformers) + 1 - i], phase, 1),
         phase, i + 1)

\* applyBeforeTransforms / applyAfterTransforms: transformers.forEach(...)
\* from the i-th transformer on; an exception ends the loop.  log lists the
\* applyTransforms calls made, in order.
RECURSIVE applyEach(_, _, _, _, _)
applyEach(tm, schema, acc, phase, i) ==
  IF i > Len(transformers) \/ acc.err # "" THEN acc
  ELSE applyEach(
         tm, schema,
         applyTransforms(tm, schema,
                         [acc EXCEPT !.log = Append(@, phase \o ":" \o transformers[i])],
                         transformers[i], phase, 1),
         phase, i + 1)

applyBeforeTransforms(tm, schema, data) ==
  applyEach(tm, schema, [data |-> data, err |-> "", log |-> <<>>], "before", 1)
applyAfterTransforms(tm, schema, data) ==
  applyEach(tm, schema, [data |-> data, err |-> "", log |-> <<>>], "after", 1)

\* The Ajv function `validator.compile(refSchema)` applied to val: ns, ps
\* are the heap, rf the schemas added to the Ajv instance by onNewRef
\* (identifier -> address).  Ajv is constructed with its default options:
\* no type coercion, no defaults.  Of the constraint keywords only those of
\* the validated schemas are interpreted (required: [], pattern of OBJECTID_TYPE).
RECURSIVE ajvValidate(_, _, _, _, _, _)
ajvValidate(ns, ps, rf, a, val, fuel) ==
  LET n == ns[a]
      pm == ps[n.props]
      sub(b, x) == ajvValidate(ns, ps, rf, b, x, fuel - 1)
      passing(list) == {i \in 1..Len(list) : sub(list[i], val)}
      target == {id \in DOMAIN rf : rf[id] > 0 /\ n.ref = refReplacer(id)}
      typeOk ==
        CASE n.type = "" -> TRUE
          [] n.type = "string" ->
               /\ val.t = "string"
               /\ n.format = "date-time" => val.s \in DOMAIN IsoInstant
               /\ n.format = "object-id" => val.s \in Hex24
          [] n.type \in {"number", "integer"} -> val.t = "number"
          [] n.type = "boolean" -> val.t = "boolean"
          [] n.type = "null" -> val = Null
          [] n.type = "array" ->
               /\ val.t = "array"
               /\ n.items # 0 => \A i \in DOMAIN val.items : sub(n.items, val.items[i])
          [] n.type = "object" ->
               /\ val.t \in {"object", "date", "objectId"}
               /\ n.props # 0 =>
                    \A i \in 1..Len(pm) :
                      (pm[i].k \in DOMAIN val.fields /\ val.fields[pm[i].k] # Undefined) =>
                        sub(pm[i].v, val.fields[pm[i].k])
               /\ n.ap = "false" =>
                    DOMAIN val.fields \subseteq
                      (IF n.props = 0 THEN {} ELSE {pm[i].k : i \in 1..Len(pm)})
               /\ n.ap = "schema" =>
                    \A k \in DOMAIN val.fields :
                      (n.props = 0 \/ k \notin {pm[i].k : i \in 1..Len(pm)}) =>
                        sub(n.apS, val.fields[k])
  IN IF fuel = 0 THEN FALSE
     ELSE IF n.ref # "" THEN \E id \in target : sub(rf[id], val)
     ELSE IF n.nullable = "true" /\ val = Null THEN TRUE
     ELSE /\ typeOk
          /\ n.oneOf # <<>> => Cardinality(passing(n.oneOf)) = 1
          /\ n.anyOf # <<>> => passing(n.anyOf) # {}
          /\ n.allOf # <<>> => Cardinality(passing(n.allOf)) = Len(n.allOf)

\* What a call of a compiled function did: the error it threw, the value
\* that reached the Ajv function, and the value the caller holds afterwards.
Outcome(err, validated, out, log) ==
  [err |-> err, validated |-> validated, out |-> out, log |-> log]

\* The closure applying the after-transforms whether or not validation
\* succeeded.
fnAlwaysAfter(c, fn, before) ==
  IF before.err # "" THEN Outcome(before.err, Undefined, before.data, before.log)
  ELSE LET after == applyAfterTransforms(c.tm, fn.schema, before.data)
       IN IF ~ajvValidate(c.nodes, c.pmaps, c.refs[ExtractorOf(fn.validator, fn.mode)],
                          fn.refSchema, before.data, DeepFuel)
            THEN Outcome("ValidationError", before.data, after.data,
                         Append(before.log, "validate") \o after.log)
          ELSE Outcome(after.err, before.data, after.data,
                       Append(before.log, "validate") \o after.log)

\* Lines 253-268 for the value `before` left by the before-transforms.
fnValidated(c, fn, before) ==
  IF before.err # "" THEN Outcome(before.err, Undefined, before.data, before.log)
  ELSE IF ~ajvValidate(c.nodes, c.pmaps, c.refs[ExtractorOf(fn.validator, fn.mode)],
                       fn.refSchema, before.data, DeepFuel)
    THEN Outcome("ValidationError", before.data, before.data, Append(before.log, "validate"))
  ELSE LET after == applyAfterTransforms(c.tm, fn.schema, before.data)
       IN Outcome(after.err, before.data, after.data,
                  Append(before.log, "validate") \o after.log)

\* The closure fn(params, ctx) of lines 246-269, called without ctx, in the
\* state c that compile left.
callFn(c, fn, params) == fnValidated(c, fn, applyBeforeTransforms(c.tm, fn.schema, params))

----------------------------------------------------------------------------
(* GlobalStoreMixin: clients shared by the services of one broker *)

\* Number of clients the services may create.
MaxClients == 3

\* The services of the broker.
Services == {"A", "B", "C"}

\* The keys of the store 'redis' the services use.
Keys == {"k1", "k2"}

\* Map.get(key) of a key without entry; a client is a positive number, 0 is null.
NoWrapper == [client |-> 0, services |-> {}]

\* A service before created(): this[kKey] is undefined and this.redis unset.
NoService == [key |-> "", redis |-> 0]

\* Map.get(key): a service that was never created passes undefined as key.
get(st, key) == IF key \in DOMAIN st THEN st[key] ELSE NoWrapper

\* getFromStore(storeName, key) called by service s: the store afterwards
\* and the value returned.
getFromStore(st, s, key) ==
  LET res == get(st, key)
  IN [store |-> IF res # NoWrapper THEN [st EXCEPT ![key].services = @ \cup {s}] ELSE st,
      ret |-> res.client]

\* setClientToStore(storeName, key, client, onClose) called by service s.
setClientToStore(st, s, key, client) ==
  [st EXCEPT ![key] = [client |-> client, services |-> {s}]]

\* res.onClose() invoked for a client while the store is st: one more
\* invocation, and whether the store still held the client at that time.
onClose(st, cl, client) ==
  [cl EXCEPT ![client] = [closes |-> @.closes + 1,
                          stored |-> @.stored \/ \E k \in DOMAIN st : st[k].client = client]]

\* removeServiceFromStore that closes the client whoever is still registered.
removeAlwaysClose(st, cl, s, key) ==
  LET res == get(st, key)
  IN IF res = NoWrapper THEN [store |-> st, clients |-> cl, ret |-> "true", closing |-> 0]
     ELSE LET st1 == [st EXCEPT ![key] = NoWrapper]
          IN [store |-> st1, clients |-> onClose(st1, cl, res.client),
              ret |-> "pending", closing |-> res.client]

\* removeServiceFromStore(storeName, key) called by service s, up to its
\* `await`: the store and the clients afterwards, the value the call has
\* returned ("pending" while it awaits onClose) and the client being closed.
removeServiceFromStore(st, cl, s, key) ==
  LET res == get(st, key)
  IN IF res = NoWrapper THEN [store |-> st, clients |-> cl, ret |-> "true", closing |-> 0]
     ELSE IF Cardinality(res.services \ {s}) > 0
          THEN [store |-> [st EXCEPT ![key].services = @ \ {s}], clients |-> cl,
                ret |-> "false", closing |-> 0]
          ELSE LET st1 == [st EXCEPT ![key] = NoWrapper]
               IN [store |-> st1, clients |-> onClose(st1, cl, res.client),
                   ret |-> "pending", closing |-> res.client]

\* A service whose QueueClient has not started and whose
\* registerRepeatableJobs has not been called.
NoQueue == [key |-> "", client |-> "none", connection |-> 0, jobs |-> "idle", jobsKey |-> ""]

\* No store call has run yet.
NoStoreCall == [key |-> "", client |-> 0, ret |-> "", op |-> "", service |-> ""]

----------------------------------------------------------------------------
(* restricted-fields: projections that keep secure fields out *)

\* Longest fields list a caller requests.
MaxFields == 3

\* A field string is the sequence of its parts: "-", "." and names.
\* s.startsWith(prefix)
startsWith(f, prefix) == Len(f) >= Len(prefix) /\ SubSeq(f, 1, Len(prefix)) = prefix

\* An optional list: undefined, or an array of field strings.
NoList == [list |-> <<>>, defined |-> FALSE]
List(l) == [list |-> l, defined |-> TRUE]

\* getFieldMode(fields); an index past the end, like '', is falsy.
getFieldMode(fields) ==
  LET at(i) == IF fields.defined /\ i <= Len(fields.list) THEN fields.list[i] ELSE <<>>
      refField == IF at(1) = <<"-", "_id">> THEN at(2) ELSE at(1)
  IN IF refField # <<>> /\ ~startsWith(refField, <<"-">>) THEN "allow" ELSE "deny"

\* [...new Set(l)]: the first occurrence of every element, in order.
RECURSIVE dedupe(_)
dedupe(l) ==
  IF l = <<>> THEN <<>>
  ELSE LET front == dedupe(SubSeq(l, 1, Len(l) - 1))
           last == l[Len(l)]
       IN IF \E i \in DOMAIN front : front[i] = last THEN front ELSE Append(front, last)

\* l.filter(keep)
RECURSIVE filter(_, _)
filter(l, keep) ==
  IF l = <<>> THEN <<>>
  ELSE (IF Head(l) \in keep THEN <<Head(l)>> ELSE <<>>) \o filter(Tail(l), keep)

\* filterFields(fields, secureFields): the list returned, or the error thrown.
filterFields(fields, secureFields) ==
  IF ~secureFields.defined \/ Len(secureFields.list) = 0
  THEN [err |-> "", res |-> fields]
  ELSE IF getFieldMode(fields) = "deny"
  THEN IF fields.defined /\ \E i \in DOMAIN fields.list : ~startsWith(fields.list[i], <<"-">>)
       THEN [err |-> "All fields must have a \"-\" prefix in deny mode", res |-> NoList]
       ELSE [err |-> "",
             res |-> List(dedupe(fields.list \o
                                 [i \in DOMAIN secureFields.list |-> <<"-">> \o secureFields.list[i]]))]
  ELSE IF \E i \in DOMAIN fields.list :
            startsWith(fields.list[i], <<"-">>) /\ fields.list[i] # <<"-", "_id">>
       THEN [err |-> "No fields must have a \"-\" prefix in allow mode", res |-> NoList]
       ELSE LET secure(f) == \E j \in DOMAIN secureFields.list :
                               \/ f = secureFields.list[j]
                               \/ startsWith(f, secureFields.list[j] \o <<".">>)
                filteredFields == filter(fields.list,
                                         {fields.list[i] : i \in DOMAIN fields.list}
                                           \ {f \in {fields.list[i] : i \in DOMAIN fields.list} : secure(f)})
            IN [err |-> "",
                res |-> IF Len(filteredFields) = 0 THEN List(<<<<"_id">>>>) ELSE List(filteredFields)]

\* The property path a field string names: its names without the dots.
RECURSIVE toPath(_)
toPath(f) ==
  IF f = <<>> THEN <<>>
  ELSE (IF Head(f) = "." THEN <<>> ELSE <<Head(f)>>) \o toPath(Tail(f))

\* A document, as the set of the paths of its values.
Document ==
  {<<"_id">>, <<"name">>, <<"password">>, <<"profile", "city">>,
   <<"profile", "password", "hash">>, <<"profile", "password", "salt">>}

\* filterObjectFields(obj, fields): lodash omit of the "-" fields, then pick
\* of the others if there are any.
filterObjectFields(obj, fields) ==
  IF ~fields.defined \/ Len(fields.list) = 0 THEN obj
  ELSE LET all == {fields.list[i] : i \in DOMAIN fields.list}
           fieldsRemove == {toPath(Tail(f)) : f \in {g \in all : startsWith(g, <<"-">>)}}
           fieldsAdd == {toPath(f) : f \in {g \in all : ~startsWith(g, <<"-">>)}}
           omitted == {v \in obj : ~\E q \in fieldsRemove : startsWith(v, q)}
       IN IF fieldsAdd = {} THEN omitted
          ELSE {v \in omitted : \E q \in fieldsAdd : startsWith(v, q)}

\* No filterFields call has been made yet.
NoFieldsCall ==
  [res |-> NoList, err |-> "", fields |-> NoList, op |-> "", secureFields |-> NoList,
   doc |-> {}]

----------------------------------------------------------------------------
(* HealthCheckMiddleware *)

\* DEFAULT_OPTIONS.readiness.path and .liveness.path, and any other url.
Urls == {"/ready", "/live", "/other"}

\* No request has been answered yet.
NoProbe == [state |-> "", broker |-> "", url |-> "", status |-> 0]

\* handler(req, res): the status written for req.url while `state` is st.
handler(url, st) ==
  IF url = "/ready" \/ url = "/live"
  THEN IF url = "/ready" THEN (IF st = "up" THEN 200 ELSE 503)
       ELSE (IF st # "down" THEN 200 ELSE 503)
  ELSE 404

----------------------------------------------------------------------------
(* loader: selecting the services to load by their metadata labels *)

\* Longest matchExpressions list of a selector.
MaxRules == 2

\* A metadata value: a string, a number or a boolean.
LabelStr(x) == [n |-> 0, b |-> FALSE, t |-> "string", s |-> x]
LabelNum(x) == [n |-> x, b |-> FALSE, t |-> "number", s |-> ""]
LabelBool(x) == [n |-> 0, b |-> x, t |-> "boolean", s |-> ""]

\* A value that may be undefined.
Absent == [defined |-> FALSE, s |-> ""]
Present(x) == [defined |-> TRUE, s |-> x]

\* The decimal digits.
Digits == <<"0", "1", "2", "3", "4", "5", "6", "7", "8", "9">>

\* value.toString() of a metadata value (numbers below ten).
toString(val) ==
  CASE val.t = "string" -> val.s
    [] val.t = "number" -> Digits[val.n + 1]
    [] val.t = "boolean" -> IF val.b THEN "true" ELSE "false"

\* A rule of matchExpressions; `values` is read by 'in' and 'notin' only.
Rule(key, operator, values) == [key |-> key, operator |-> operator, values |-> values]

\* meta[rule.key]?.toString(); the label keys are not names of Object.prototype.
labelOf(meta, key) ==
  IF key \in DOMAIN meta THEN Present(toString(meta[key])) ELSE Absent

\* rule.values.includes(x)
includes(values, x) == x.defined /\ \E i \in DOMAIN values : values[i] = x.s

\* isServiceMatchRule(metadata, rule): "true", "false" or "throw".
isServiceMatchRule(metadata, rule) ==
  LET meta == IF metadata.defined THEN metadata.labels ELSE <<>>
  IN CASE rule.operator = "in" ->
            IF includes(rule.values, labelOf(meta, rule.key)) THEN "true" ELSE "false"
       [] rule.operator = "notin" ->
            IF ~includes(rule.values, labelOf(meta, rule.key)) THEN "true" ELSE "false"
       [] rule.operator = "exists" -> IF rule.key \in DOMAIN meta THEN "true" ELSE "false"
       [] rule.operator = "doesnotexists" -> IF rule.key \notin DOMAIN meta THEN "true" ELSE "false"
       [] OTHER -> "throw"

\* matchExpressions.every(rule => isServiceMatchRule(metadata, rule)) from
\* index i on: it stops at the first rule that does not match or throws.
RECURSIVE every(_, _, _)
every(metadata, matchExpressions, i) ==
  IF i > Len(matchExpressions) THEN "true"
  ELSE LET m == isServiceMatchRule(metadata, matchExpressions[i])
       IN IF m # "true" THEN m ELSE every(metadata, matchExpressions, i + 1)

\* The array s.matchExpressions is the caller's own array.
shared(selector) ==
  [alias |-> selector.matchExpressions.defined, list |-> selector.matchExpressions.list]

\* selector.matchExpressions?.slice() || []: an array of its own.
slice(selector) ==
  [alias |-> FALSE, list |-> selector.matchExpressions.list]

\* isServiceSelected(metadata, selector): the result and the caller's
\* selector after the call.
isServiceSelected(metadata, selector) ==
  LET s == slice(selector)
      pushed == s.list \o
                  (IF selector.matchLabels.defined
                   THEN [i \in DOMAIN selector.matchLabels.list |->
                           Rule(selector.matchLabels.list[i].key, "in",
                                <<selector.matchLabels.list[i].value>>)]
                   ELSE <<>>)
  IN [res |-> every(metadata, pushed, 1),
      selector |-> IF s.alias THEN [selector EXCEPT !.matchExpressions.list = pushed]
                   ELSE selector]

\* An optional array or object: undefined, or its entries in order.
Opt(l) == [list |-> l, defined |-> TRUE]
NoOpt == [list |-> <<>>, defined |-> FALSE]

\* A selector: both members are optional.
Selector(matchLabels, matchExpressions) ==
  [matchExpressions |-> matchExpressions, matchLabels |-> matchLabels]

\* No isServiceSelected call has been made yet.
NoSelectCall ==
  [res |-> "", after |-> Selector(NoOpt, NoOpt), op |-> "",
   metadata |-> [defined |-> FALSE, labels |-> <<>>], selector |-> Selector(NoOpt, NoOpt)]

----------------------------------------------------------------------------
(* Actions *)

NoCall ==
  [op |-> "none", validator |-> "", ext |-> "", schema |-> 0, initialRef |-> "", skipRoot |-> FALSE,
   mode |-> "", err |-> "", errId |-> "", res |-> 0, fn |-> NoFn, attempts |-> <<>>,
   params |-> Undefined, validated |-> Undefined, out |-> Undefined, log |-> <<>>]

InitValidator ==
  /\ nodes = InitNodes
  /\ pmaps = InitPmaps
  /\ refs = [e \in Extractors |-> [i \in Ids |-> NoEntry]]
  /\ hooks = [e \in Extractors |-> <<>>]
  /\ transformMap = [t \in {transformers[i] : i \in 1..Len(transformers)} |-> <<>>]
  /\ compiledFns = [v \in Validators |-> <<>>]
  /\ wrappers = <<>>
  /\ lastCall = NoCall
  /\ calls = 0

InitStore ==
  /\ store = [key \in Keys |-> NoWrapper]
  /\ clients = <<>>
  /\ svc = [s \in Services |-> NoService]
  /\ pending = {}
  /\ storeCall = NoStoreCall
  /\ queue = [s \in Services |-> NoQueue]

InitHealth ==
  /\ state = "down"
  /\ server = "none"
  /\ timeout = FALSE
  /\ broker = "new"
  /\ probe = NoProbe

Init ==
  /\ InitValidator
  /\ InitStore
  /\ fieldsCall = NoFieldsCall
  /\ InitHealth
  /\ selectCall = NoSelectCall

\* A direct call extractor.extract(schema, initialRef, skipRoot).
Extract(e, schema, initialRef, skipRoot) ==
  /\ calls < MaxCalls
  /\ \E r \in {extract(e, schema, initialRef, skipRoot)} :
        /\ nodes' = r.st.nodes
        /\ pmaps' = r.st.pmaps
        /\ refs' = [refs EXCEPT ![e] = r.st.refs]
        /\ hooks' = [hooks EXCEPT ![e] = r.st.hooks]
        /\ lastCall' = [NoCall EXCEPT !.op = "extract", !.ext = e, !.schema = schema,
                          !.initialRef = initialRef, !.skipRoot = skipRoot,
                          !.err = r.st.err, !.errId = r.st.errId, !.res = r.res,
                          !.attempts = r.st.attempts]
  /\ calls' = calls + 1
  /\ UNCHANGED outsideValidator
  /\ UNCHANGED <<transformMap, compiledFns, wrappers>>

\* v.compile(schema, mode)
Compile(v, schema, mode) ==
  /\ calls < MaxCalls
  /\ \E c \in {compile(v, schema, mode)} :
        /\ nodes' = c.nodes
        /\ pmaps' = c.pmaps
        /\ refs' = c.refs
        /\ hooks' = c.hooks
        /\ transformMap' = c.tm
        /\ compiledFns' = c.cf
        /\ lastCall' = [NoCall EXCEPT !.op = "compile", !.validator = v,
                          !.ext = ExtractorOf(v, ModeOf(mode)), !.schema = schema,
                          !.mode = mode, !.err = c.err, !.errId = c.errId,
                          !.res = c.fn.refSchema, !.fn = c.fn, !.attempts = c.attempts]
  /\ calls' = calls + 1
  /\ UNCHANGED outsideValidator
  /\ UNCHANGED wrappers

\* v.middleware().localAction(handler, action) for an action whose params
\* is a JSON schema: `validate = this.compile(schema, action.validatorMode)`,
\* and the handler is wrapped with it.
LocalAction(v, schema, validatorMode) ==
  /\ calls < MaxCalls
  /\ \E c \in {compile(v, schema, validatorMode)} :
        /\ nodes' = c.nodes
        /\ pmaps' = c.pmaps
        /\ refs' = c.refs
        /\ hooks' = c.hooks
        /\ transformMap' = c.tm
        /\ compiledFns' = c.cf
        /\ wrappers' = IF c.err # "" THEN wrappers
                       ELSE Append(wrappers, [validator |-> v, params |-> schema,
                                              validatorMode |-> validatorMode,
                                              validate |-> c.fn])
        /\ lastCall' = [NoCall EXCEPT !.op = "localAction", !.validator = v,
                          !.ext = ExtractorOf(v, ModeOf(validatorMode)),
                          !.schema = schema, !.mode = validatorMode, !.err = c.err,
                          !.errId = c.errId, !.res = c.fn.refSchema, !.fn = c.fn,
                          !.attempts = c.attempts]
  /\ calls' = calls + 1
  /\ UNCHANGED outsideValidator

\* The values a caller passes for a schema.
Date1 == DateV("2021-05-06T08:33:20.377Z")

Params(schema) ==
  CASE schema = 24 -> {Date1, DateV("Invalid Date"), StrV("2021-05-06T10:33:20.377+02:00")}
    [] schema = 29 -> {StrV("toto"), StrV("2021-05-06T08:33:20.377Z"), ArrV(<<Date1>>),
                       ArrV(<<StrV("2021-05-06T10:33:20.377+02:00")>>), Date1}
    [] schema = 34 -> {ObjV([k \in {"values"} |-> ArrV(<<StrV("a"), StrV("b")>>)]),
                       ObjV([k \in {"values"} |-> ArrV(<<ArrV(<<StrV("a")>>)>>)]),
                       ObjV([k \in {"values"} |-> StrV("a")])}
    [] schema = 36 -> {ObjV([k \in {"ids"} |-> StrV("22")]),
                       ObjV([k \in {"ids"} |-> ArrV(<<StrV("22")>>)]),
                       ObjV([k \in {"ids"} |-> Null]),
                       ObjV([k \in {"ids"} |-> Date1]),
                       ObjV([k \in {"date"} |-> Date1]),
                       ObjV([k \in {"ids"} |-> Undefined]),
                       ObjV([k \in {"date"} |-> DateV("Invalid Date")]),
                       ObjV([k \in {"hasOwnProperty", "date"} |->
                               IF k = "date" THEN Date1 ELSE StrV("toto")]),
                       ObjV([k \in {"date"} |-> Null]),
                       ObjV([k \in {"ids", "date"} |-> Date1]),
                       ObjV([k \in {"ids", "date"} |->
                               IF k = "ids" THEN ArrV(<<>>) ELSE StrV("not a date")])}
    [] schema = 38 -> {ObjV([k \in {"value"} |-> Val("number", "25")]),
                       ObjV([k \in {"appointment"} |-> ObjV(<<>>)]),
                       ObjV([k \in {"appointment"} |-> ObjV([k2 \in {"date"} |-> Date1])]),
                       ObjV([k \in {"appointment"} |-> ObjV([k2 \in {"date"} |-> Undefined])]),
                       ObjV([k \in {"appointment"} |-> Null]),
                       ObjV([k \in {"appointment"} |-> Undefined]),
                       ObjV([k \in {"appointment"} |-> StrV("2021-05-06T08:33:20.377Z")]),
                       ObjV([k \in {"appointment"} |-> ArrV(<<ObjV([k2 \in {"date"} |-> Date1])>>)]),
                       ObjV([k \in {"appointment"} |-> Date1]),
                       Null, StrV("toto"), ArrV(<<Date1>>)}
    [] schema = 42 -> {ObjV([k \in {"dates"} |-> StrV("2021-05-06T08:33:20.377Z")]),
                       ObjV([k \in {"dates"} |-> Date1]),
                       ObjV([k \in {"dates"} |-> ArrV(<<Date1>>)])}
    [] OTHER -> {}

\* v.validate(params, schema): `return this.compile(schema)(params)`.
Validate(v, schema, params) ==
  /\ calls < MaxCalls
  /\ \E c \in {compile(v, schema, "undefined")} :
     \E o \in {IF c.err # "" THEN Outcome(c.err, Undefined, params, <<>>)
                ELSE callFn(c, c.fn, params)} :
        /\ nodes' = c.nodes
        /\ pmaps' = c.pmaps
        /\ refs' = c.refs
        /\ hooks' = c.hooks
        /\ transformMap' = c.tm
        /\ compiledFns' = c.cf
        /\ lastCall' = [NoCall EXCEPT !.op = "validate", !.validator = v,
                          !.ext = ExtractorOf(v, defaultMode), !.schema = schema,
                          !.mode = "undefined", !.err = o.err, !.errId = c.errId,
                          !.res = c.fn.refSchema, !.fn = c.fn, !.attempts = c.attempts,
                          !.params = params, !.validated = o.validated, !.out = o.out,
                          !.log = o.log]
  /\ calls' = calls + 1
  /\ UNCHANGED outsideValidator
  /\ UNCHANGED wrappers

\* created() of a service using the store (redis.mixin, redlock.mixin, the
\* queue mixins, the database connection mixin): take the client from the
\* store, create one and store it if there is none, keep it in this.redis.
Created(s, key) ==
  \E g \in {getFromStore(store, s, key)} :
    /\ g.ret = 0 => Len(clients) < MaxClients
    /\ store' = IF g.ret # 0 THEN g.store
                ELSE setClientToStore(g.store, s, key, Len(clients) + 1)
    /\ clients' = IF g.ret # 0 THEN clients
                  ELSE Append(clients, [closes |-> 0, stored |-> FALSE])
    /\ svc' = [svc EXCEPT ![s] = [key |-> key,
                                  redis |-> IF g.ret # 0 THEN g.ret ELSE Len(clients) + 1]]
    /\ storeCall' = [key |-> key, client |-> g.ret, ret |-> "",
                     op |-> "getFromStore", service |-> s]
    /\ UNCHANGED <<pending, queue>>
    /\ UNCHANGED outsideStore

\* stopped() of a service: removeServiceFromStore('redis', this[kKey]) up to
\* the point where it returns or awaits onClose.
Stopped(s) ==
  \E r \in {removeServiceFromStore(store, clients, s, svc[s].key)} :
    /\ store' = r.store
    /\ clients' = r.clients
    /\ pending' = IF r.closing = 0 THEN pending
                  ELSE pending \cup {[client |-> r.closing, service |-> s]}
    /\ storeCall' = [key |-> svc[s].key, client |-> r.closing, ret |-> r.ret,
                     op |-> "removeServiceFromStore", service |-> s]
    /\ UNCHANGED <<svc, queue>>
    /\ UNCHANGED outsideStore

\* The promise of onClose settles: the awaiting removeServiceFromStore
\* returns true, or rejects if onClose rejected.
Closed(p, ok) ==
  /\ p \in pending
  /\ pending' = pending \ {p}
  /\ storeCall' = [key |-> svc[p.service].key, client |-> p.client,
                   ret |-> IF ok THEN "true" ELSE "rejected",
                   op |-> "onClose", service |-> p.service]
  /\ UNCHANGED <<store, clients, svc, queue>>
  /\ UNCHANGED outsideStore

NextStore ==
  \/ \E s \in Services, key \in Keys : Created(s, key)
  \/ \E s \in Services : Stopped(s)
  \/ \E p \in pending, ok \in BOOLEAN : Closed(p, ok)

SpecStore == Init /\ [][NextStore]_vars

\* QueueClient started() of service s with brokerURL key: take the
\* connection from the store, or create it and store it.
QueueStarted(s, key) ==
  /\ queue[s].client = "none"
  /\ \E g \in {getFromStore(store, s, key)} :
       /\ g.ret = 0 => Len(clients) < MaxClients
       /\ store' = IF g.ret # 0 THEN g.store
                   ELSE setClientToStore(g.store, s, key, Len(clients) + 1)
       /\ clients' = IF g.ret # 0 THEN clients
                     ELSE Append(clients, [closes |-> 0, stored |-> FALSE])
       /\ queue' = [queue EXCEPT ![s].client = "started", ![s].key = key,
                                  ![s].connection = IF g.ret # 0 THEN g.ret
                                                    ELSE Len(clients) + 1]
       /\ storeCall' = [key |-> key, client |-> g.ret, ret |-> "",
                        op |-> "getFromStore", service |-> s]
  /\ UNCHANGED <<svc, pending>>
  /\ UNCHANGED outsideStore

\* QueueClient stopped() of service s: the queue is closed, then
\* removeServiceFromStore('redis', this[kKey]) runs up to its await.
QueueStopped(s) ==
  /\ queue[s].client = "started"
  /\ \E r \in {removeServiceFromStore(store, clients, s, queue[s].key)} :
       /\ store' = r.store
       /\ clients' = r.clients
       /\ pending' = IF r.closing = 0 THEN pending
                     ELSE pending \cup {[client |-> r.closing, service |-> s]}
       /\ storeCall' = [key |-> queue[s].key, client |-> r.closing, ret |-> r.ret,
                        op |-> "removeServiceFromStore", service |-> s]
  /\ queue' = [queue EXCEPT ![s].client = "stopped"]
  /\ UNCHANGED svc
  /\ UNCHANGED outsideStore

\* registerRepeatableJobs() of service s with brokerURL key, up to its first
\* await on the queue: the connection is taken from the store or created.
RegisterRepeatableJobs(s, key) ==
  /\ queue[s].jobs = "idle"
  /\ \E g \in {getFromStore(store, s, key)} :
       /\ g.ret = 0 => Len(clients) < MaxClients
       /\ store' = IF g.ret # 0 THEN g.store
                   ELSE setClientToStore(g.store, s, key, Len(clients) + 1)
       /\ clients' = IF g.ret # 0 THEN clients
                     ELSE Append(clients, [closes |-> 0, stored |-> FALSE])
       /\ storeCall' = [key |-> key, client |-> g.ret, ret |-> "",
                        op |-> "getFromStore", service |-> s]
  /\ queue' = [queue EXCEPT ![s].jobs = "running", ![s].jobsKey = key]
  /\ UNCHANGED <<svc, pending>>
  /\ UNCHANGED outsideStore

\* registerRepeatableJobs() of service s resumes after `await queue.close()`:
\* removeServiceFromStore('redis', key) runs up to its await.
JobsRegistered(s) ==
  /\ queue[s].jobs = "running"
  /\ \E r \in {removeServiceFromStore(store, clients, s, queue[s].jobsKey)} :
       /\ store' = r.store
       /\ clients' = r.clients
       /\ pending' = IF r.closing = 0 THEN pending
                     ELSE pending \cup {[client |-> r.closing, service |-> s]}
       /\ storeCall' = [key |-> queue[s].jobsKey, client |-> r.closing, ret |-> r.ret,
                        op |-> "removeServiceFromStore", service |-> s]
  /\ queue' = [queue EXCEPT ![s].jobs = "done"]
  /\ UNCHANGED svc
  /\ UNCHANGED outsideStore

\* The services that mix in QueueClient and QueueStaticRepeatableJobs.
QueueServices == {"A", "B"}

NextQueue ==
  \/ \E s \in QueueServices, key \in Keys : QueueStarted(s, key)
  \/ \E s \in QueueServices : QueueStopped(s)
  \/ \E s \in QueueServices, key \in Keys : RegisterRepeatableJobs(s, key)
  \/ \E s \in QueueServices : JobsRegistered(s)
  \/ \E p \in pending, ok \in BOOLEAN : Closed(p, ok)

SpecQueue == Init /\ [][NextQueue]_vars

\* The field strings callers request.
FieldStrings ==
  {<<"_id">>, <<"-", "_id">>, <<"name">>, <<"-", "name">>, <<"password">>,
   <<"-", "password">>, <<"profile">>, <<"-", "profile">>,
   <<"profile", ".", "password">>, <<"profile", ".", "password", ".", "hash">>}

\* The fields lists callers request: undefined, or up to MaxFields strings.
FieldsLists ==
  {NoList} \cup {List(l) : l \in UNION {[1..n -> FieldStrings] : n \in 0..MaxFields}}

\* The secure fields a service declares.
SecureLists ==
  {NoList, List(<<>>), List(<<<<"password">>>>), List(<<<<"profile", ".", "password">>>>),
   List(<<<<"password">>, <<"profile", ".", "password">>>>)}

\* A caller holds its arguments for filterFields.
InitFields ==
  /\ InitValidator
  /\ InitStore
  /\ InitHealth
  /\ selectCall = NoSelectCall
  /\ \E fields \in FieldsLists, secureFields \in SecureLists :
       fieldsCall = [NoFieldsCall EXCEPT !.fields = fields, !.secureFields = secureFields]

\* filterFields(fields, secureFields), and the projection it returns
\* applied to a document.
FilterFields ==
  /\ fieldsCall.op = ""
  /\ \E r \in {filterFields(fieldsCall.fields, fieldsCall.secureFields)} :
       fieldsCall' = [fieldsCall EXCEPT
                        !.op = "filterFields", !.err = r.err, !.res = r.res,
                        !.doc = IF r.err # "" THEN {} ELSE filterObjectFields(Document, r.res)]
  /\ UNCHANGED outsideFields

NextFields == FilterFields

SpecFields == InitFields /\ [][NextFields]_vars

\* created(broker): the broker was constructed.
HealthCreated ==
  /\ broker = "new"
  /\ state' = "starting"
  /\ server' = "binding"
  /\ broker' = "created"
  /\ UNCHANGED <<timeout, probe>>
  /\ UNCHANGED outsideHealth

\* The callback of server.listen: the port is bound, or it is not.
Listen(ok) ==
  /\ server = "binding"
  /\ server' = IF ok THEN "listening" ELSE "failed"
  /\ UNCHANGED <<state, timeout, broker, probe>>
  /\ UNCHANGED outsideHealth

\* started(): broker.start() has completed; the debounce timer is set.
HealthStarted ==
  /\ broker = "created"
  /\ timeout' = TRUE
  /\ broker' = "started"
  /\ UNCHANGED <<state, server, probe>>
  /\ UNCHANGED outsideHealth

\* The debounce timer fires. It is unref'ed: it fires only if the process
\* is still alive, whatever the broker has done since.
Timeout ==
  /\ timeout
  /\ state' = "up"
  /\ timeout' = FALSE
  /\ UNCHANGED <<server, broker, probe>>
  /\ UNCHANGED outsideHealth

\* stopping(): broker.stop() begins.
HealthStopping ==
  /\ broker \in {"created", "started"}
  /\ state' = "stopping"
  /\ broker' = "stopping"
  /\ UNCHANGED <<server, timeout, probe>>
  /\ UNCHANGED outsideHealth

\* stopped(): broker.stop() has completed.
HealthStopped ==
  /\ broker = "stopping"
  /\ state' = "down"
  /\ server' = "closed"
  /\ broker' = "stopped"
  /\ UNCHANGED <<timeout, probe>>
  /\ UNCHANGED outsideHealth

\* A request reaches the listening server and handler answers it.
Request(url) ==
  /\ server = "listening"
  /\ probe' = [state |-> state, broker |-> broker, url |-> url, status |-> handler(url, state)]
  /\ UNCHANGED <<state, server, timeout, broker>>
  /\ UNCHANGED outsideHealth

NextHealth ==
  \/ HealthCreated
  \/ \E ok \in BOOLEAN : Listen(ok)
  \/ HealthStarted
  \/ Timeout
  \/ HealthStopping
  \/ HealthStopped
  \/ \E url \in Urls : Request(url)

SpecHealth == Init /\ [][NextHealth]_vars

\* The metadata of the services: undefined, or labels a and b.
Metadatas ==
  {[defined |-> FALSE, labels |-> <<>>],
   [defined |-> TRUE, labels |-> <<>>],
   [defined |-> TRUE, labels |-> [k \in {"a"} |-> LabelStr("c")]],
   [defined |-> TRUE, labels |-> [k \in {"b"} |-> LabelStr("c")]],
   [defined |-> TRUE, labels |-> [k \in {"a", "b"} |-> IF k = "a" THEN LabelStr("b") ELSE LabelStr("c")]],
   [defined |-> TRUE, labels |-> [k \in {"a", "b"} |-> IF k = "a" THEN LabelNum(1) ELSE LabelBool(TRUE)]]}

\* The rules of the selectors.
Rules ==
  {Rule(key, operator, values) :
     key \in {"a", "b"}, operator \in {"in", "notin"},
     values \in {<<"c">>, <<"b", "1">>, <<"true">>}}
  \cup {Rule(key, operator, <<>>) :
          key \in {"a", "b"}, operator \in {"exists", "doesnotexists", "unknown"}}

\* The matchLabels of the selectors.
MatchLabels ==
  {NoOpt, Opt(<<>>), Opt(<<[key |-> "a", value |-> "c"]>>), Opt(<<[key |-> "a", value |-> "b"]>>),
   Opt(<<[key |-> "a", value |-> "1"], [key |-> "b", value |-> "true"]>>)}

\* The matchExpressions of the selectors: undefined, or up to MaxRules rules.
MatchExpressions ==
  {NoOpt} \cup {Opt(l) : l \in UNION {[1..n -> Rules] : n \in 0..MaxRules}}

\* A caller holds its arguments for isServiceSelected.
InitLoader ==
  /\ InitValidator
  /\ InitStore
  /\ fieldsCall = NoFieldsCall
  /\ InitHealth
  /\ \E metadata \in Metadatas, matchLabels \in MatchLabels,
        matchExpressions \in MatchExpressions :
       selectCall = [NoSelectCall EXCEPT
                       !.metadata = metadata,
                       !.selector = Selector(matchLabels, matchExpressions),
                       !.after = Selector(matchLabels, matchExpressions)]

\* isServiceSelected(metadata, selector)
IsServiceSelected ==
  /\ selectCall.op = ""
  /\ \E r \in {isServiceSelected(selectCall.metadata, selectCall.selector)} :
       selectCall' = [selectCall EXCEPT
                        !.op = "isServiceSelected", !.res = r.res, !.after = r.selector]
  /\ UNCHANGED outsideLoader

NextLoader == IsServiceSelected

SpecLoader == InitLoader /\ [][NextLoader]_vars

NextExtract ==
  \E schema \in ExtractRoots, initialRef \in InitialRefs, skipRoot \in BOOLEAN :
    Extract("standalone", schema, initialRef, skipRoot)

SpecExtract == Init /\ [][NextExtract]_vars

\* Direct calls on an AjvExtractor and on an OpenAPIExtractor.
NextExtractors ==
  \E e \in {"standalone", "openapi"}, schema \in ExtractRoots,
     initialRef \in InitialRefs, skipRoot \in BOOLEAN :
    Extract(e, schema, initialRef, skipRoot)

SpecExtractors == Init /\ [][NextExtractors]_vars

NextValidator ==
  \E v \in Validators, schema \in CompileRoots, mode \in ModeArgs :
    \/ Compile(v, schema, mode)
    \/ LocalAction(v, schema, mode)
    \/ \E params \in Params(schema) : Validate(v, schema, params)

SpecValidator == Init /\ [][NextValidator]_vars

Next == NextExtract \/ NextValidator

Spec == Init /\ [][Next]_vars

----------------------------------------------------------------------------
(* Positions of a schema, read off the caller's schema alone *)

\* One step of a path from a schema to a schema below it.
Step(e, k, i) == [e |-> e, k |-> k, i |-> i]

\* The '#' nodes ("self") and the nodes carrying SCHEMA_REF_NAME ("named")
\* that lie below address a at positions extract descends into: each with
\* the identifier of its nearest enclosing named node (owner, "" if none)
\* and its path from that node's content (from the root if none).
RECURSIVE Sites(_, _, _, _, _)
Sites(a, owner, path, content, fuel) ==
  LET n == nodes[a]
      pm == pmaps[n.props]
      child(b, step) == Sites(b, owner, Append(path, step), FALSE, fuel - 1)
      site(kind) == [kind |-> kind, owner |-> owner, path |-> path, node |-> a]
  IN IF fuel = 0 THEN {}
     ELSE IF n.ref = "#" THEN {site("self")}
     ELSE IF n.ref # "" THEN {}
     ELSE IF n.id # "" /\ ~content
       THEN {site("named")} \cup Sites(a, n.id, <<>>, TRUE, fuel - 1)
     ELSE IF n.type \in PrimitiveTypes THEN {}
     ELSE (IF n.type = "array" /\ n.items # 0
             THEN child(n.items, Step("items", "", 0)) ELSE {})
          \cup (IF n.type = "object" /\ n.props # 0
                  THEN UNION {child(pm[i].v, Step("props", pm[i].k, 0)) : i \in 1..Len(pm)}
                  ELSE {})
          \cup (IF n.type = "object" /\ n.ap = "schema"
                  THEN child(n.apS, Step("apS", "", 0)) ELSE {})
          \cup UNION {UNION {child(n[f][i], Step(f, "", i)) : i \in 1..Len(n[f])} :
                        f \in {"oneOf", "anyOf", "allOf"}}

SitesOf(schema) == Sites(schema, "", <<>>, FALSE, DeepFuel)

\* The object graph at address a of the current heap, as a value.
Value(a) == Deep(nodes, pmaps, a, DeepFuel)

\* What stands where there is no object.
Missing == [Blank EXCEPT !.extra = "missing", !.props = <<>>, !.apS = <<>>, !.items = <<>>]

\* The value found by following path from value t.
RECURSIVE NodeAt(_, _)
NodeAt(t, path) ==
  IF path = <<>> THEN t
  ELSE LET s == Head(path)
           next == CASE s.e = "props" ->
                          IF t.props # <<>> /\ s.k \in DOMAIN t.props[1]
                            THEN t.props[1][s.k] ELSE Missing
                     [] s.e \in {"items", "apS"} ->
                          IF t[s.e] # <<>> THEN t[s.e][1] ELSE Missing
                     [] OTHER ->
                          IF s.i \in DOMAIN t[s.e] THEN t[s.e][s.i] ELSE Missing
       IN NodeAt(next, Tail(path))

\* What the last call to extract left for the content owned by owner: the
\* object it returned for "", the registered schema for an identifier.
Extracted(owner) ==
  IF owner = "" THEN Value(lastCall.res)
  ELSE IF refs[lastCall.ext][owner] > 0 THEN Value(refs[lastCall.ext][owner])
  ELSE Missing

\* What extract left at the position of a site.
Output(s) == NodeAt(Extracted(s.owner), s.path)

\* The last call was extract and it returned.
Returned == lastCall.op = "extract" /\ lastCall.err = ""

\* A value that is exactly { $ref: address }.
RefTo(address) == [Missing EXCEPT !.extra = "", !.ref = address]

----------------------------------------------------------------------------
(* Claims *)

\* C1: when extract returns, every '#' it descended to has become a
\* reference to the address of the nearest enclosing named node (never to
\* an outer named node's address), and with no enclosing named node to the
\* initialRef passed to extract.
C1_SelfRefNearestNamed ==
  Returned =>
    \A s \in SitesOf(lastCall.schema) :
      s.kind = "self" =>
        Output(s) = RefTo(IF s.owner = "" THEN lastCall.initialRef
                          ELSE "https://schemas.wavy.fr/" \o s.owner)

\* extract returned for A = {x: B, y: '#'} with B = {b: '#' | null}: the
\* '#' inside B, nested in A, refers to B's address.
C1_Witness ==
  /\ Returned
  /\ lastCall.schema = 15
  /\ \E s \in SitesOf(15) :
        /\ s.kind = "self" /\ s.owner = "B" /\ nodes[s.node].ref = "#"
        /\ Output(s).ref = "https://schemas.wavy.fr/B"
  /\ \E s \in SitesOf(15) :
        /\ s.kind = "self" /\ s.owner = "A"
        /\ Output(s).ref = "https://schemas.wavy.fr/A"

\* C2: an identifier that is already registered and is met again with
\* extracted content that differs structurally from the registered content
\* makes extract throw the registration conflict for that identifier, at
\* that very registration, whether the first registration was made by the
\* same call or by an earlier one.
C2_ConflictRaises ==
  lastCall.op = "extract" =>
    \A i \in DOMAIN lastCall.attempts :
      LET a == lastCall.attempts[i]
      IN (a.prior > 0 /\ Value(a.schema) # Value(a.prior)) =>
           /\ lastCall.err = "Conflict"
           /\ lastCall.errId = a.id
           /\ i = Len(lastCall.attempts)

\* A second extract call meets K as a string after an earlier call
\* registered K as a number, and throws.
C2_Witness ==
  /\ lastCall.op = "extract" /\ calls = 2
  /\ lastCall.err = "Conflict" /\ lastCall.errId = "K"
  /\ Len(lastCall.attempts) = 1
  /\ lastCall.attempts[1].prior > 0
  /\ Value(lastCall.attempts[1].schema).type = "string"
  /\ Value(lastCall.attempts[1].prior).type = "number"

\* The content of input node a without its identifier and `nullable`.
Content(a) == [Value(a) EXCEPT !.id = "", !.nullable = "absent"]

\* The input nodes carrying identifier id.
Named(id) == {a \in 1..Len(InitNodes) : nodes[a].id = id}

\* The identifiers every occurrence of which has structurally equal content.
ConsistentIds == {id \in Ids : \A a, b \in Named(id) : Content(a) = Content(b)}

\* Number of onNewRef invocations in h for identifier id.
HookCount(h, id) == Cardinality({i \in DOMAIN h : h[i].id = id})

C3_Step ==
  \A e \in Extractors, id \in Ids :
    /\ HookCount(hooks'[e], id) <= 1
    /\ refs'[e][id] > 0 =>
         \E i \in DOMAIN hooks'[e] :
           hooks'[e][i] = [id |-> id, schema |-> refs'[e][id]]
    /\ refs[e][id] > 0 =>
         /\ refs'[e][id] = refs[e][id]
         /\ Deep(nodes', pmaps', refs'[e][id], DeepFuel) = Value(refs[e][id])
         /\ HookCount(hooks'[e], id) = 1
    /\ id \in ConsistentIds =>
         /\ ~(lastCall'.err = "Conflict" /\ lastCall'.errId = id)
         /\ \A a \in Named(id) :
              (nodes[a].type \in PrimitiveTypes /\ refs'[e][id] > 0) =>
                Deep(nodes', pmaps', refs'[e][id], DeepFuel) = Content(a)

\* C3: whatever calls are made on an extractor, an identifier whose
\* occurrences all have structurally equal content (nullable or not) never
\* raises a registration conflict; once registered, its entry is the same
\* object with the same content after every later call, equal to the
\* content of one occurrence without identifier and `nullable`; and onNewRef
\* has been invoked exactly once for it.
C3_Idempotent == [][C3_Step]_vars

\* A second call returns for {a: MyString nullable, l: [MyString]} with
\* additionalProperties MyString: it met S three times, S was registered by
\* the earlier call, and onNewRef ran once for S.
C3_Witness ==
  /\ Returned /\ calls = 2 /\ lastCall.schema = 8
  /\ "S" \in ConsistentIds
  /\ nodes[2].nullable = "true" /\ nodes[1].nullable = "absent"
  /\ Len(lastCall.attempts) = 3
  /\ \A i \in 1..3 : lastCall.attempts[i].id = "S" /\ lastCall.attempts[i].prior > 0
  /\ HookCount(hooks["standalone"], "S") = 1

\* The addresses reachable from the objects in front.
Children(a) ==
  LET n == nodes[a]
      pm == pmaps[n.props]
  IN (IF n.props = 0 THEN {} ELSE {pm[i].v : i \in 1..Len(pm)})
     \cup ({n.apS, n.items} \ {0})
     \cup UNION {{n[f][i] : i \in 1..Len(n[f])} : f \in {"oneOf", "anyOf", "allOf"}}

RECURSIVE ReachFrom(_, _)
ReachFrom(front, seen) ==
  IF front \subseteq seen THEN seen
  ELSE ReachFrom(UNION {Children(a) : a \in front}, seen \cup front)

Reach(a) == ReachFrom({a}, {})

\* The objects extract produced: the returned tree and every registered schema.
Produced ==
  Reach(lastCall.res)
    \cup UNION {Reach(refs[lastCall.ext][id]) : id \in {i \in Ids : refs[lastCall.ext][i] > 0}}

\* C4 (as claimed): after extract returns, every node of the input that
\* carries an identifier has a registry entry, and no object of the
\* returned tree or of a registered schema carries an identifier or is a
\* raw '#'.
C4_EveryNamedExtracted ==
  Returned =>
    /\ \A b \in Reach(lastCall.schema) :
         nodes[b].id # "" => refs[lastCall.ext][nodes[b].id] > 0
    /\ \A b \in Produced : nodes[b].id = "" /\ nodes[b].ref # "#"

\* C5: whatever extract does, returning or throwing, the objects of the
\* caller's schemas are the objects they were, keyword for keyword,
\* identifier and `nullable` included.
C5_InputNeverMutated ==
  /\ SubSeq(nodes, 1, Len(InitNodes)) = InitNodes
  /\ SubSeq(pmaps, 1, Len(InitPmaps)) = InitPmaps

\* extract returned for a schema with properties, a nullable named node
\* and additionalProperties: it built new objects, and the named nullable
\* node of the input still has both keywords.
C5_Witness ==
  /\ Returned /\ lastCall.schema = 8
  /\ lastCall.res > Len(InitNodes)
  /\ Len(pmaps) > Len(InitPmaps)
  /\ nodes[2].id = "S" /\ nodes[2].nullable = "true"
  /\ Value(lastCall.res).props[1]["a"] # Value(8).props[1]["a"]

NullType == [Missing EXCEPT !.extra = "", !.type = "null"]

\* C6: when extract returns, a nullable named node stands replaced by
\* {oneOf: [{$ref: address}, {type: 'null'}]} and any other named node by
\* the bare {$ref: address} (the root under skipRoot has no reference
\* site); the content registered under the identifier carries neither the
\* identifier nor `nullable`.
C6_NullableReferenceSite ==
  Returned =>
    \A s \in SitesOf(lastCall.schema) :
      s.kind = "named" =>
        LET id == nodes[s.node].id
            address == "https://schemas.wavy.fr/" \o id
        IN /\ ~(lastCall.skipRoot /\ s.owner = "" /\ s.path = <<>>) =>
                Output(s) = IF nodes[s.node].nullable = "true"
                              THEN [Missing EXCEPT !.extra = "",
                                                   !.oneOf = <<RefTo(address), NullType>>]
                              ELSE RefTo(address)
           /\ Extracted(id) # Missing
           /\ Extracted(id).id = "" /\ Extracted(id).nullable = "absent"

\* extract returned for {a: MyString nullable, l: [MyString], ...}: `a` is
\* the oneOf of the reference and null, the items of `l` the bare
\* reference, and the registered MyString is not nullable.
C6_Witness ==
  /\ Returned /\ lastCall.schema = 8
  /\ nodes[2].nullable = "true"
  /\ Value(lastCall.res).props[1]["a"].oneOf =
       <<RefTo("https://schemas.wavy.fr/S"), NullType>>
  /\ Value(lastCall.res).props[1]["l"].items = <<RefTo("https://schemas.wavy.fr/S")>>
  /\ Extracted("S").nullable = "absent" /\ Extracted("S").type = "string"

\* C7 (as claimed): extract terminates normally on every schema graph, the
\* mutually recursive ones included, and then every identifier it met is
\* registered once.
C7_TerminatesOnCycles ==
  lastCall.op = "extract" =>
    /\ lastCall.err # "RangeError"
    /\ lastCall.err = "" =>
         \A s \in SitesOf(lastCall.schema) :
           s.kind = "named" => HookCount(hooks[lastCall.ext], nodes[s.node].id) = 1

\* The schema has a '#' that extract descends to with no named node around it.
HasOrphanSelfRef(schema) == \E s \in SitesOf(schema) : s.kind = "self" /\ s.owner = ""

\* C8: extract called without initialRef on a schema with a '#' outside
\* every named subtree throws; so does compile (directly or for an action)
\* of such a schema, which then returns no function and caches nothing.
C8_OrphanSelfRefThrows ==
  /\ (lastCall.op = "extract" /\ lastCall.initialRef = ""
        /\ HasOrphanSelfRef(lastCall.schema)) => lastCall.err # ""
  /\ (lastCall.op \in {"compile", "localAction"} /\ HasOrphanSelfRef(lastCall.schema)) =>
        /\ lastCall.err # ""
        /\ lastCall.fn = NoFn
        /\ lastCall.schema \notin DOMAIN compiledFns[lastCall.validator]

\* compile was called under a configured mode for {a: '#'} and threw the
\* self-reference error.
C8_Witness ==
  /\ lastCall.op = "compile" /\ lastCall.schema = 14
  /\ ModeOf(lastCall.mode) \in Modes
  /\ HasOrphanSelfRef(14)
  /\ lastCall.err = "SelfRef"

\* C9 (as claimed): compile called with a mode the validator was not
\* constructed with throws the mode-not-found error, whatever was compiled
\* before.
C9_UnknownModeFails ==
  (lastCall.op \in {"compile", "localAction"} /\ ModeOf(lastCall.mode) \notin Modes) =>
    lastCall.err = "ModeNotFound"

\* C10 (as claimed): the function compile returns for a configured mode,
\* and the one installed for an action that declares a configured
\* validatorMode, validates with that mode's Ajv instance and extractor.
C10_ValidatesUnderOwnMode ==
  /\ (lastCall.op = "compile" /\ lastCall.err = "" /\ ModeOf(lastCall.mode) \in Modes) =>
       lastCall.fn.mode = ModeOf(lastCall.mode)
  /\ \A i \in DOMAIN wrappers :
       ModeOf(wrappers[i].validatorMode) \in Modes =>
         wrappers[i].validate.mode = ModeOf(wrappers[i].validatorMode)

\* The last call validated a value: compile returned a function and the
\* function was called.
Validated == lastCall.op = "validate" /\ lastCall.fn # NoFn

\* C11 (as claimed): validating a Date against the schema
\* {type: 'string', format: 'date-time'} itself, the Ajv function receives
\* the Date's ISO-8601 string, accepts it, and the caller then holds a
\* value equal to the original Date.
C11_DateRoundTripAtRoot ==
  (/\ Validated
   /\ isTransformableLeaf("date", nodes[lastCall.schema])
   /\ lastCall.params.t = "date" /\ lastCall.params.s # "Invalid Date") =>
    /\ lastCall.validated = StrV(lastCall.params.s)
    /\ lastCall.err = ""
    /\ lastCall.out = lastCall.params

\* The schema has, somewhere below it, a coercible array whose items are
\* arrays that are not themselves coercible.
HasCoercibleArrayOfArrays(schema) ==
  \E b \in Reach(schema) :
    /\ nodes[b].type = "array" /\ nodes[b].coerce /\ nodes[b].items # 0
    /\ nodes[nodes[b].items].type = "array" /\ ~nodes[nodes[b].items].coerce

\* C12 (as claimed): compile of a schema with a coercible array of arrays
\* fails with the unsupported-transforms error, before any value is validated.
C12_NestedCoercibleFailsAtCompile ==
  (/\ lastCall.op \in {"compile", "localAction", "validate"}
   /\ ModeOf(lastCall.mode) \in Modes
   /\ HasCoercibleArrayOfArrays(lastCall.schema)) =>
    lastCall.err = "UnsupportedTransforms" /\ lastCall.fn = NoFn

\* One step keeps what was compiled and stores a function only for the
\* schema it compiled.
C13_Step ==
  \A v \in Validators, schema \in CompileRoots :
    /\ schema \in DOMAIN compiledFns[v] =>
         /\ schema \in DOMAIN compiledFns'[v]
         /\ compiledFns'[v][schema] = compiledFns[v][schema]
    /\ (/\ schema \in DOMAIN compiledFns[v]
        /\ lastCall' # lastCall
        /\ lastCall'.validator = v /\ lastCall'.schema = schema) =>
         /\ lastCall'.fn = compiledFns[v][schema]
         /\ lastCall'.err \in {"", "ValidationError", "RangeError", "TypeError"}
         /\ UNCHANGED <<nodes, pmaps, refs, hooks, transformMap>>
    /\ \A t \in DOMAIN transformMap :
         schema \in DOMAIN transformMap[t] =>
           /\ schema \in DOMAIN transformMap'[t]
           /\ transformMap'[t][schema] = transformMap[t][schema]
    /\ (schema \in DOMAIN compiledFns'[v] /\ schema \notin DOMAIN compiledFns[v]) =>
         /\ lastCall'.validator = v /\ lastCall'.schema = schema
         /\ lastCall'.fn = compiledFns'[v][schema]
         /\ compiledFns'[v][schema].schema = schema
         /\ \A t \in DOMAIN transformMap : schema \in DOMAIN transformMap'[t]

\* C13: on one validator, once a schema object has a compiled function the
\* function stored under it never changes, every later compile or validate
\* of that object returns that function and touches neither the heap, the
\* registries nor the transform programs (no second extraction, no second
\* discovery); the programs found for a schema by a transform kind are
\* never replaced; and a function is stored only by the call that compiled
\* that schema, under that schema, with its programs already stored.
C13_CompiledOnce == [][C13_Step]_vars

\* A second compile of {a: MyString} on the same validator returned the
\* stored function without registering anything.
C13_Witness ==
  /\ calls = 2 /\ lastCall.op = "compile" /\ lastCall.schema = 7 /\ lastCall.err = ""
  /\ lastCall.attempts = <<>>
  /\ lastCall.fn = compiledFns[lastCall.validator][7]
  /\ HookCount(hooks[ExtractorOf(lastCall.validator, lastCall.fn.mode)], "S") = 1
  /\ \A t \in DOMAIN transformMap : 7 \in DOMAIN transformMap[t]

\* One step leaves alone everything the validators other than the called
\* one read.
C14_Step ==
  \A v \in Validators, w \in Validators :
    (lastCall' # lastCall /\ lastCall'.validator = v /\ w # v) =>
      /\ compiledFns'[w] = compiledFns[w]
      /\ \A m \in Modes : /\ refs'[ExtractorOf(w, m)] = refs[ExtractorOf(w, m)]
                           /\ hooks'[ExtractorOf(w, m)] = hooks[ExtractorOf(w, m)]
      /\ transformMap' = transformMap

\* C14 (as claimed): a call on one validator changes nothing that another
\* validator reads: not its compiled functions, not the registries of its
\* extractors, not the transform programs its loadTransforms looks up.
C14_InstanceScopedCaches == [][C14_Step]_vars

\* The coercible array properties of an object schema: key -> property schema.
CoercibleKeys(schema) ==
  IF nodes[schema].type # "object" \/ nodes[schema].props = 0 THEN {}
  ELSE {i \in DOMAIN pmaps[nodes[schema].props] :
          isTransformableLeaf("coerceArray", nodes[pmaps[nodes[schema].props][i].v])}

\* Array seen is the array given, up to the conversions the date and
\* object-id transformers make on its elements.
SameArray(given, seen) ==
  /\ seen.t = "array"
  /\ Len(seen.items) = Len(given.items)
  /\ \A i \in DOMAIN given.items :
       given.items[i].t \notin {"date", "objectId"} => seen.items[i] = given.items[i]

\* C15: when an object is validated against a schema with a coercible array
\* property, the Ajv function sees at that property [v] for a present
\* value v that is neither an array nor null, the same array for an array
\* (coercion neither wraps it nor changes its elements), null for null, and
\* no property where there was none.
C15_CoerceArray ==
  (Validated /\ lastCall.params.t = "object" /\ lastCall.validated # Undefined) =>
    \A i \in CoercibleKeys(lastCall.schema) :
      LET k == pmaps[nodes[lastCall.schema].props][i].k
          present == k \in DOMAIN lastCall.params.fields
          val == lastCall.params.fields[k]
      IN /\ lastCall.validated.t = "object"
         /\ (k \in DOMAIN lastCall.validated.fields) = present
         /\ present =>
              IF val.t = "array" THEN SameArray(val, lastCall.validated.fields[k])
              ELSE lastCall.validated.fields[k] = IF val = Null THEN val ELSE ArrV(<<val>>)

\* {ids: '22'} was validated against {ids: coercible array of strings}:
\* the Ajv function received {ids: ['22']} and accepted it.
C15_Witness ==
  /\ Validated /\ lastCall.schema = 36 /\ lastCall.err = ""
  /\ lastCall.params = ObjV([k \in {"ids"} |-> StrV("22")])
  /\ lastCall.validated = ObjV([k \in {"ids"} |-> ArrV(<<StrV("22")>>)])
  /\ lastCall.out = lastCall.validated

\* The schema is a union of a plain string and an array of date-time strings.
IsStringOrDates(schema) ==
  /\ Len(nodes[schema].oneOf) = 2
  /\ nodes[nodes[schema].oneOf[1]] = Str("")
  /\ nodes[nodes[schema].oneOf[2]].type = "array"
  /\ isTransformableLeaf("date", nodes[nodes[nodes[schema].oneOf[2]].items])

\* An array whose elements are valid Dates.
IsArrayOfDates(val) ==
  /\ val.t = "array" /\ val.items # <<>>
  /\ \A i \in DOMAIN val.items : val.items[i].t = "date" /\ val.items[i].s # "Invalid Date"

\* C16: validating against oneOf[string, array of date-time strings], a
\* string is accepted and is unchanged before and after validation; an
\* array of Dates reaches the Ajv function as the array of their ISO
\* strings, is accepted, and is the array of the same Dates afterwards;
\* and whatever the value, the programs under the `select` change nothing
\* but the elements of an array.
C16_UnionSelect ==
  (Validated /\ IsStringOrDates(lastCall.schema)) =>
    /\ lastCall.params.t = "string" =>
         /\ lastCall.err = ""
         /\ lastCall.validated = lastCall.params /\ lastCall.out = lastCall.params
    /\ IsArrayOfDates(lastCall.params) =>
         /\ lastCall.err = ""
         /\ lastCall.validated =
              ArrV([i \in DOMAIN lastCall.params.items |-> StrV(lastCall.params.items[i].s)])
         /\ lastCall.out = lastCall.params
    /\ lastCall.params.t # "array" => lastCall.out = lastCall.params
    /\ lastCall.params.t = "array" =>
         /\ lastCall.out.t = "array"
         /\ Len(lastCall.out.items) = Len(lastCall.params.items)

\* An array holding a Date was validated against the union and came back
\* holding the same Date, the Ajv function having seen its ISO string.
C16_Witness ==
  /\ Validated /\ lastCall.schema = 29 /\ lastCall.err = ""
  /\ lastCall.params = ArrV(<<Date1>>)
  /\ lastCall.validated = ArrV(<<StrV("2021-05-06T08:33:20.377Z")>>)
  /\ lastCall.out = ArrV(<<Date1>>)
  /\ transformMap["date"][29] = <<<<Select(<<<<Loop, This>>>>)>>>>

\* One step of the store keeps every client either stored and never closed
\* or removed and closed once, and a removeServiceFromStore closes exactly
\* when it removes the last registered service.
C17_Step ==
  /\ \A c \in DOMAIN clients' :
       /\ clients'[c].closes = IF \E k \in Keys : store'[k].client = c THEN 0 ELSE 1
       /\ ~clients'[c].stored
  /\ (storeVars' # storeVars /\ storeCall'.op = "removeServiceFromStore") =>
       LET s == storeCall'.service
           key == storeCall'.key
           w == get(store, key)
       IN /\ key = svc[s].key
          /\ w = NoWrapper =>
               /\ storeCall'.ret = "true"
               /\ UNCHANGED <<store, clients, pending>>
          /\ (w # NoWrapper /\ ~(w.services \subseteq {s})) =>
               /\ storeCall'.ret = "false"
               /\ store' = [store EXCEPT ![key].services = @ \ {s}]
               /\ UNCHANGED <<clients, pending>>
          /\ (w # NoWrapper /\ w.services \subseteq {s}) =>
               /\ storeCall'.ret = "pending" /\ storeCall'.client = w.client
               /\ store' = [store EXCEPT ![key] = NoWrapper]
               /\ clients[w.client].closes = 0 /\ clients'[w.client].closes = 1
               /\ \A c \in DOMAIN clients : c # w.client => clients'[c] = clients[c]
               /\ pending' = pending \cup {[client |-> w.client, service |-> s]}
  /\ (storeVars' # storeVars /\ storeCall'.op = "getFromStore") =>
       LET s == storeCall'.service
           key == storeCall'.key
       IN /\ svc'[s].redis = store'[key].client
          /\ s \in store'[key].services
          /\ clients'[svc'[s].redis].closes = 0
          /\ storeCall'.client # 0 =>
               /\ storeCall'.client = store[key].client
               /\ clients[storeCall'.client].closes = 0
               /\ clients' = clients
  /\ (storeVars' # storeVars /\ storeCall'.op = "onClose") =>
       /\ clients'[storeCall'.client].closes = 1
       /\ UNCHANGED <<store, clients>>

\* C17: whatever the interleaving of services taking a client from the
\* store, releasing it and of onClose promises settling, onClose of a client
\* is invoked exactly once, by the removeServiceFromStore that removes the
\* last registered service and after the entry has left the store; a
\* removeServiceFromStore that leaves a service registered returns false
\* and closes nothing; and getFromStore never hands out a client whose
\* onClose was invoked.
C17_ReferenceCounting == [][C17_Step]_vars

\* Services A and B shared client 1 under one key and the last of them has
\* just released it: the entry is gone and onClose was invoked once.
C17_Witness ==
  /\ svc["A"] = [key |-> "k1", redis |-> 1] /\ svc["B"] = [key |-> "k1", redis |-> 1]
  /\ storeCall.op = "removeServiceFromStore" /\ storeCall.ret = "pending"
  /\ storeCall.client = 1 /\ storeCall.key = "k1"
  /\ store["k1"] = NoWrapper
  /\ clients[1].closes = 1

\* The list has an entry with the "-" prefix other than '-_id' and an entry
\* without it.
Mixed(fields) ==
  /\ \E i \in DOMAIN fields.list :
       startsWith(fields.list[i], <<"-">>) /\ fields.list[i] # <<"-", "_id">>
  /\ \E i \in DOMAIN fields.list : ~startsWith(fields.list[i], <<"-">>)

\* The values of the document stored under a secure field.
SecureValues(secureFields) ==
  {v \in Document : \E j \in DOMAIN secureFields.list :
                      startsWith(v, toPath(secureFields.list[j]))}

\* C18 (as claimed): with a non-empty secureFields list, filterFields
\* throws for a list mixing entries with and without the "-" prefix (other
\* than '-_id'), and the projection it returns otherwise, applied to a
\* document, yields no value stored under a secure field.
C18_NeverGrantsSecureField ==
  (fieldsCall.op = "filterFields" /\ fieldsCall.secureFields.defined
     /\ Len(fieldsCall.secureFields.list) > 0) =>
    /\ Mixed(fieldsCall.fields) => fieldsCall.err # ""
    /\ fieldsCall.err = "" => fieldsCall.doc \cap SecureValues(fieldsCall.secureFields) = {}

\* C19 (as claimed): whatever the interleaving of the hooks, of the
\* debounce timer and of the requests, the readiness endpoint answers 200
\* only to a request made while the broker has started and is neither
\* stopping nor stopped (so never again once stopping has run), and the
\* liveness endpoint answers 200 only while the broker is not stopped.
C19_ReadinessFollowsLifecycle ==
  /\ (probe.url = "/ready" /\ probe.status = 200) => probe.broker = "started"
  /\ (probe.url = "/live" /\ probe.status = 200) => probe.broker # "stopped"

\* The service has the label and its value, as a string, is one of values.
LabelIn(metadata, key, values) ==
  /\ metadata.defined /\ key \in DOMAIN metadata.labels
  /\ \E i \in DOMAIN values : values[i] = toString(metadata.labels[key])

\* The rule matches the metadata of the service.
Matches(metadata, rule) ==
  CASE rule.operator = "in" -> LabelIn(metadata, rule.key, rule.values)
    [] rule.operator = "notin" -> ~LabelIn(metadata, rule.key, rule.values)
    [] rule.operator = "exists" -> metadata.defined /\ rule.key \in DOMAIN metadata.labels
    [] rule.operator = "doesnotexists" ->
         ~(metadata.defined /\ rule.key \in DOMAIN metadata.labels)
    [] OTHER -> FALSE

\* C20: isServiceSelected returns true exactly when every rule of
\* matchExpressions matches the metadata and every pair of matchLabels is
\* a label of the service whose value, as a string, is the pair's value
\* (so a selector without rules and pairs selects every service), and the
\* caller's selector is the same after the call.
C20_SelectedIffAllMatch ==
  selectCall.op = "isServiceSelected" =>
    /\ (selectCall.res = "true") <=>
         /\ \A i \in DOMAIN selectCall.selector.matchExpressions.list :
              Matches(selectCall.metadata, selectCall.selector.matchExpressions.list[i])
         /\ \A i \in DOMAIN selectCall.selector.matchLabels.list :
              LabelIn(selectCall.metadata, selectCall.selector.matchLabels.list[i].key,
                      <<selectCall.selector.matchLabels.list[i].value>>)
    /\ selectCall.after = selectCall.selector

\* A service with the labels a: 1 and b: true was selected by a selector
\* with the matchLabels a: '1', b: 'true' and a matching rule.
C20_Witness ==
  /\ selectCall.op = "isServiceSelected" /\ selectCall.res = "true"
  /\ selectCall.metadata.defined /\ DOMAIN selectCall.metadata.labels = {"a", "b"}
  /\ selectCall.metadata.labels["a"] = LabelNum(1)
  /\ selectCall.selector.matchLabels =
       Opt(<<[key |-> "a", value |-> "1"], [key |-> "b", value |-> "true"]>>)
  /\ selectCall.selector.matchExpressions = Opt(<<Rule("b", "notin", <<"c">>)>>)
  /\ selectCall.after = selectCall.selector

\* The steps of a call that runs to its end: the before-transforms of the
\* date, the object-id and the coerce-array transformer, the structural
\* validation, then the after-transforms in the same order.
AllSteps ==
  <<"before:date", "before:objectId", "before:coerceArray", "validate",
    "after:date", "after:objectId", "after:coerceArray">>

\* C21: a call of a compiled validate function runs the before-transforms
\* in the order date, object-id, coerce-array, then the structural
\* validation, then the after-transforms in the same order: all seven steps
\* when the value is accepted, the first four and no after-transform when
\* validation fails, and only before-transforms, without validation, when
\* one of them throws.
C21_TransformOrder ==
  Validated =>
    /\ Len(lastCall.log) <= Len(AllSteps)
    /\ lastCall.log = SubSeq(AllSteps, 1, Len(lastCall.log))
    /\ lastCall.err = "" => lastCall.log = AllSteps
    /\ lastCall.err = "ValidationError" => lastCall.log = SubSeq(AllSteps, 1, 4)
    /\ lastCall.err \notin {"", "ValidationError"} =>
         /\ Len(lastCall.log) \in 1..3
         /\ lastCall.validated = Undefined

\* {date: Date} was validated against {ids, date: date-time}: all seven
\* steps ran, the Ajv function saw the ISO string and the caller holds the
\* Date again.
C21_Witness ==
  /\ Validated /\ lastCall.schema = 36 /\ lastCall.err = ""
  /\ lastCall.params = ObjV([k \in {"date"} |-> Date1])
  /\ lastCall.validated = ObjV([k \in {"date"} |-> StrV("2021-05-06T08:33:20.377Z")])
  /\ lastCall.out = lastCall.params
  /\ lastCall.log = AllSteps

\* new has the containers of old with the same keys and the same length,
\* or is the one-element array a coerce-array wrapped old into.
RECURSIVE SameKeys(_, _)
SameKeys(old, new) ==
  CASE old.t = "array" ->
         /\ new.t = "array" /\ Len(new.items) = Len(old.items)
         /\ \A i \in DOMAIN old.items : SameKeys(old.items[i], new.items[i])
    [] old.t # "array" /\ new.t = "array" ->
         Len(new.items) = 1 /\ SameKeys(old, new.items[1])
    [] old.t = "object" /\ new.t # "array" ->
         /\ new.t = "object" /\ DOMAIN new.fields = DOMAIN old.fields
         /\ \A k \in DOMAIN old.fields : SameKeys(old.fields[k], new.fields[k])
    [] OTHER -> new.t # "object"

\* C22: the before- and the after-transforms add no key to any container:
\* every object of the caller's value has the same keys when it reaches the
\* Ajv function and when the call ends, a leaf whose key or whose ancestor
\* is absent stays absent; and a key present with the value undefined or
\* null is handed to the transform function: coerce-array wraps the
\* undefined into [undefined] and returns the null.
C22_NoKeyAdded ==
  Validated =>
    /\ SameKeys(lastCall.params, lastCall.out)
    /\ lastCall.validated # Undefined => SameKeys(lastCall.params, lastCall.validated)
    /\ (lastCall.params.t = "object" /\ lastCall.validated # Undefined) =>
         \A i \in CoercibleKeys(lastCall.schema) :
           LET k == pmaps[nodes[lastCall.schema].props][i].k
           IN k \in DOMAIN lastCall.params.fields =>
                /\ lastCall.params.fields[k] = Undefined =>
                     lastCall.validated.fields[k] = ArrV(<<Undefined>>)
                /\ lastCall.params.fields[k] = Null => lastCall.validated.fields[k] = Null

\* {value: 25} was validated against {value, appointment: {staffID, date}}:
\* it was accepted and is still {value: 25}.
C22_Witness ==
  /\ Validated /\ lastCall.schema = 38 /\ lastCall.err = ""
  /\ lastCall.params = ObjV([k \in {"value"} |-> Val("number", "25")])
  /\ lastCall.validated = lastCall.params
  /\ lastCall.out = lastCall.params
  /\ transformMap["date"][38] = <<<<Access("appointment"), Access("date"), This>>>>

\* {ids: undefined} was validated against {ids: coercible array}: the
\* transform function received the undefined and wrapped it.
C22_WitnessUndefined ==
  /\ Validated /\ lastCall.schema = 36
  /\ lastCall.params = ObjV([k \in {"ids"} |-> Undefined])
  /\ lastCall.validated = ObjV([k \in {"ids"} |-> ArrV(<<Undefined>>)])

\* C23 (as claimed): whatever value a compiled function is called with,
\* replaying the programs found for its schema throws nothing (the call
\* ends normally or with the validation error), and a value that is not
\* the plain object the programs expect at the root is left as it is.
C23_ReplayNeverThrows ==
  Validated =>
    /\ lastCall.err \in {"", "ValidationError"}
    /\ (nodes[lastCall.schema].type = "object" /\ lastCall.params.t # "object") =>
         lastCall.validated = lastCall.params /\ lastCall.out = lastCall.params

\* The programs of the listed schemas one after the other, each program
\* behind the step prefix[i] of its schema.
RECURSIVE Programs(_, _, _, _)
Programs(t, list, prefix, i) ==
  IF i > Len(list) THEN <<>>
  ELSE [j \in 1..Len(findTransforms(t, list[i]).res) |->
          prefix[i] \o findTransforms(t, list[i]).res[j]]
       \o Programs(t, list, prefix, i + 1)

\* What the first matching production of node a yields for transformer t.
FirstProduction(t, a) ==
  LET n == nodes[a]
      pm == pmaps[n.props]
      arr == IF n.oneOf # <<>> THEN n.oneOf ELSE IF n.anyOf # <<>> THEN n.anyOf ELSE n.allOf
  IN CASE isTransformableLeaf(t, n) -> <<<<This>>>>
       [] ~isTransformableLeaf(t, n) /\ n.type = "object" /\ n.props # 0 ->
            Programs(t, [i \in 1..Len(pm) |-> pm[i].v],
                     [i \in 1..Len(pm) |-> <<Access(pm[i].k)>>], 1)
       [] OTHER ->
            IF n.type = "array" /\ n.items # 0
              THEN Programs(t, <<n.items>>, <<<<Loop>>>>, 1)
            ELSE IF arr # <<>>
              THEN <<<<Select(Programs(t, arr, [i \in 1..Len(arr) |-> <<>>], 1))>>>>
            ELSE <<>>

\* The nodes reachable from a through properties, items and union members.
RECURSIVE Below(_, _)
Below(a, fuel) ==
  LET n == nodes[a]
      kids == (IF n.props = 0 THEN {} ELSE {pmaps[n.props][i].v : i \in 1..Len(pmaps[n.props])})
              \cup (IF n.items = 0 THEN {} ELSE {n.items})
              \cup {n.oneOf[i] : i \in 1..Len(n.oneOf)}
              \cup {n.anyOf[i] : i \in 1..Len(n.anyOf)}
              \cup {n.allOf[i] : i \in 1..Len(n.allOf)}
  IN IF fuel = 0 THEN {a} ELSE {a} \cup UNION {Below(k, fuel - 1) : k \in kids}

\* C24: for every schema whose transforms were loaded and every node under
\* it, findTransforms yields exactly what the first matching production
\* yields, in the order leaf (`this`, no descent), object with properties
\* (`access`), array with items (`loop`), union (`select` over sub-programs
\* that start from an empty path), nothing; later productions that also
\* match contribute nothing.
C24_FirstMatchingProduction ==
  \A i \in 1..Len(transformers) :
    \A schema \in DOMAIN transformMap[transformers[i]] :
      /\ transformMap[transformers[i]][schema] = FirstProduction(transformers[i], schema)
      /\ \A a \in Below(schema, 3) :
           findTransforms(transformers[i], a).res = FirstProduction(transformers[i], a)

\* The transforms of an object that has properties and oneOf were loaded.
C24_Witness ==
  /\ 39 \in DOMAIN transformMap["date"]
  /\ transformMap["date"][39] = <<<<Access("when"), This>>, <<Access("list"), Loop, This>>>>

\* The address of an AjvExtractor rewritten as the OpenAPIExtractor writes it.
MapAddress(r) ==
  IF \E id \in Ids : r = refReplacer(id)
    THEN openapiRefReplacer(CHOOSE id \in Ids : r = refReplacer(id))
    ELSE r

\* An unfolded schema with every reference address rewritten by MapAddress.
RECURSIVE MapRefs(_)
MapRefs(d) ==
  [d EXCEPT
     !.ref = MapAddress(@),
     !.props = IF @ = <<>> THEN <<>> ELSE << [k \in DOMAIN @[1] |-> MapRefs(@[1][k])] >>,
     !.apS = IF @ = <<>> THEN <<>> ELSE <<MapRefs(@[1])>>,
     !.items = IF @ = <<>> THEN <<>> ELSE <<MapRefs(@[1])>>,
     !.oneOf = [i \in 1..Len(@) |-> MapRefs(@[i])],
     !.anyOf = [i \in 1..Len(@) |-> MapRefs(@[i])],
     !.allOf = [i \in 1..Len(@) |-> MapRefs(@[i])]]

\* The tree at address a of the heap of st, addresses mapped.
Mapped(st, a) == MapRefs(Deep(st.nodes, st.pmaps, a, DeepFuel))

\* Registry rf of one extractor against registry rg of the other: the same
\* identifiers absent, pending and registered, with the same contents.
SameRegistry(st, rf, su, rg) ==
  \A id \in Ids :
    IF rf[id] > 0 /\ rg[id] > 0 THEN Mapped(st, rf[id]) = Mapped(su, rg[id])
    ELSE rf[id] = rg[id]

\* The onNewRef invocations h of one extractor against those g of the other.
SameHooks(st, h, su, g) ==
  /\ Len(h) = Len(g)
  /\ \A i \in 1..Len(h) :
       h[i].id = g[i].id /\ Mapped(st, h[i].schema) = Mapped(su, g[i].schema)

Here == [nodes |-> nodes, pmaps |-> pmaps]

\* What the two extractors do with the same arguments from this state.
SameWalk(schema, initialRef, skipRoot) ==
  LET a == extract("standalone", schema, initialRef, skipRoot)
      o == extract("openapi", schema, initialRef, skipRoot)
  IN /\ a.st.err = o.st.err
     /\ a.st.errId = o.st.errId
     /\ a.st.err = "" => Mapped(a.st, a.res) = Mapped(o.st, o.res)
     /\ SameRegistry(a.st, a.st.refs, o.st, o.st.refs)
     /\ SameHooks(a.st, a.st.hooks, o.st, o.st.hooks)

RECURSIVE NoDateAtLeaf(_, _, _)
NoDateAtLeaf(a, val, fuel) ==
  LET n == nodes[a]
      pm == pmaps[n.props]
      arr == n.oneOf \o n.anyOf \o n.allOf
  IN IF fuel = 0 \/ n.ref # "" THEN TRUE
     ELSE IF isTransformableLeaf("date", n) THEN val.t # "date"
     ELSE IF n.type = "object" /\ n.props # 0
       THEN val.t = "object" =>
              \A i \in 1..Len(pm) :
                pm[i].k \in DOMAIN val.fields =>
                  NoDateAtLeaf(pm[i].v, val.fields[pm[i].k], fuel - 1)
     ELSE IF n.type = "array" /\ n.items # 0
       THEN val.t = "array" =>
              \A i \in DOMAIN val.items : NoDateAtLeaf(n.items, val.items[i], fuel - 1)
     ELSE \A i \in 1..Len(arr) : NoDateAtLeaf(arr[i], val, fuel - 1)

\* C26 (as claimed): the value that reaches structural validation holds no
\* Date at a date-time leaf of the schema, also when the leaf is the item of
\* a coercible array that was given a single Date.
C26_NoDateReachesValidation ==
  (Validated /\ lastCall.log # <<>> /\ "validate" \in {lastCall.log[i] : i \in DOMAIN lastCall.log}) =>
    NoDateAtLeaf(lastCall.schema, lastCall.validated, MaxStack)

\* The position in h of the onNewRef invocation for id, 0 if there is none.
HookIndex(h, id) ==
  IF \E i \in DOMAIN h : h[i].id = id THEN CHOOSE i \in DOMAIN h : h[i].id = id ELSE 0

\* The identifiers onNewRef was invoked for during the last call.
NewlyRegistered ==
  {lastCall.attempts[i].id : i \in {j \in DOMAIN lastCall.attempts :
                                      lastCall.attempts[j].prior = NullEntry}}

\* C27: whenever a call to extract invokes onNewRef for X, onNewRef has
\* already been invoked for every named node that lies in X's content at a
\* position extract descends into: registration is post-order.
C27_PostOrderRegistration ==
  lastCall.op = "extract" =>
    \A s \in SitesOf(lastCall.schema) :
      (s.kind = "named" /\ s.owner \in NewlyRegistered /\ nodes[s.node].id # s.owner) =>
        /\ HookIndex(hooks[lastCall.ext], nodes[s.node].id) > 0
        /\ HookIndex(hooks[lastCall.ext], nodes[s.node].id)
             < HookIndex(hooks[lastCall.ext], s.owner)

\* extract registered A = {x: B, y: '#'} and, before it, the B nested in it.
C27_Witness ==
  /\ Returned
  /\ lastCall.schema = 15
  /\ {"A", "B"} \subseteq NewlyRegistered
  /\ HookIndex(hooks[lastCall.ext], "B") > 0
  /\ HookIndex(hooks[lastCall.ext], "B") < HookIndex(hooks[lastCall.ext], "A")

\* The registration attempt that raised the conflict of call c.
Conflicting(c) == c.attempts[Len(c.attempts)]

\* A call of extract from this state that presents, for identifier X, only
\* content equal to the registered one returns and invokes onNewRef for X
\* no further time.
FirstContentAccepted(e, X) ==
  \A schema \in ExtractRoots :
    \A r \in {extract(e, schema, "", FALSE)} :
      \A mine \in {{i \in DOMAIN r.st.attempts : r.st.attempts[i].id = X}} :
        (/\ mine # {}
         /\ \A i \in mine :
              Deep(r.st.nodes, r.st.pmaps, r.st.attempts[i].schema, DeepFuel) = Value(refs[e][X]))
        => /\ r.st.errId # X
           /\ HookCount(r.st.hooks, X) = HookCount(hooks[e], X)
           /\ r.st.refs[X] = refs[e][X]

\* In the state a conflict leaves: the identifier is registered, onNewRef
\* was invoked for it once and not with the conflicting content, and the
\* first content is accepted again.
C28_After ==
  (lastCall.op = "extract" /\ lastCall.err = "Conflict") =>
    LET e == lastCall.ext
        X == lastCall.errId
        a == Conflicting(lastCall)
    IN /\ a.id = X /\ a.prior > 0
       /\ refs[e][X] = a.prior
       /\ HookCount(hooks[e], X) = 1
       /\ \A i \in DOMAIN hooks[e] :
            hooks[e][i].id = X => (hooks[e][i].schema = a.prior /\ hooks[e][i].schema # a.schema)
       /\ FirstContentAccepted(e, X)

\* A conflict on an identifier registered before the call leaves its
\* registry entry and the registered content as they were.
C28_Step ==
  (lastCall'.op = "extract" /\ lastCall'.err = "Conflict"
     /\ refs[lastCall'.ext][lastCall'.errId] > 0) =>
    /\ refs'[lastCall'.ext][lastCall'.errId] = refs[lastCall'.ext][lastCall'.errId]
    /\ hooks'[lastCall'.ext] = hooks[lastCall'.ext]
    /\ Deep(nodes', pmaps', refs[lastCall'.ext][lastCall'.errId], DeepFuel)
         = Value(refs[lastCall'.ext][lastCall'.errId])

\* C28: when extract raises the registration conflict for X, the registry
\* still maps X to the content registered first, onNewRef has not been
\* invoked for the conflicting content, and a later extract that presents
\* the first content for X returns without registering X again.
C28_ConflictKeepsFirst == []C28_After /\ [][C28_Step]_vars

\* K was registered as a number by an earlier call, the last call raised
\* the conflict for K as a string, and extracting {a: K as a number} again
\* returns.
C28_Witness ==
  /\ lastCall.op = "extract" /\ lastCall.err = "Conflict" /\ lastCall.errId = "K"
  /\ lastCall.schema = 22
  /\ refs[lastCall.ext]["K"] > 0
  /\ nodes[refs[lastCall.ext]["K"]].type = "number"
  /\ HookCount(hooks[lastCall.ext], "K") = 1
  /\ extract(lastCall.ext, 10, "", FALSE).st.err = ""

\* C29: a call that ends with the validation error leaves the caller's
\* value exactly as the before-transforms left it: it is the value that was
\* validated, no after-transform ran, and the before-transforms' changes
\* are not undone.
C29_FailureKeepsBeforeState ==
  (Validated /\ lastCall.err = "ValidationError") =>
    /\ lastCall.out = applyBeforeTransforms(transformMap, lastCall.schema, lastCall.params).data
    /\ lastCall.out = lastCall.validated
    /\ lastCall.log = <<"before:date", "before:objectId", "before:coerceArray", "validate">>

\* {ids: Date, date: Date} failed validation: the caller's object holds the
\* ISO string at date and the one-element array at ids.
C29_Witness ==
  /\ Validated /\ lastCall.err = "ValidationError"
  /\ lastCall.schema = 36
  /\ lastCall.params = ObjV([k \in {"ids", "date"} |-> Date1])
  /\ lastCall.out = ObjV([k \in {"ids", "date"} |->
                            IF k = "ids" THEN ArrV(<<Date1>>) ELSE StrV(Date1.s)])

\* C30 (as claimed): in every interleaving, the connection a started
\* QueueClient took from the store has not been closed as long as the
\* stopped hook of that QueueClient has not run, also when
\* registerRepeatableJobs of the same service took the connection under the
\* same key and released it.
C30_ConnectionOpenUntilStopped ==
  \A s \in Services :
    queue[s].client = "started" => clients[queue[s].connection].closes = 0

====
